---- MODULE Spec2Model ----
(***************************************************************************)
(* Model of the P2P file sharing system (ard1102/p2p):                     *)
(*   - the directory's FileIndex with its lock, the per-connection workers *)
(*     of IndexingServer running RegistryService / SearchService /         *)
(*     ReplicationService against it (specification Spec);                 *)
(*   - the newline-framed codec of ProtocolHandler on a TCP byte stream,   *)
(*     on a directory connection (SpecConn) and on a peer-to-peer transfer *)
(*     (SpecXfer).                                                         *)
(***************************************************************************)
EXTENDS Integers, Sequences, FiniteSets, TLC

\* ------------------------------------------------------------------------
\* Universe of the directory model
\* ------------------------------------------------------------------------
Peers == {"peer1", "peer2"}
Files == {"a.txt", "b.bin"}
Metas == {"m1", "m2"}
Workers == {"w1", "w2"}
\* the meta (size_bytes) each caller's payload gives: the two connections disagree
MetaOf(w) == IF w = "w1" THEN "m1" ELSE "m2"

\* envelope peer_id of a request: a peer, or empty/absent
EnvelopeIds == Peers \cup {""}

\* accepting socket's remote address (client_addr)
ClientHost == "127.0.0.1"
ClientPort == 50000
\* payload.peer.port when absent (None)
NoPort == -1
\* payload.peer.port when it is a value that int() rejects (such as "abc")
BadPort == -2
\* payload.peer of a request registering p: the client of the first connection declares
\* its peer_id, host and port (as PeerClient does); the client of the second declares
\* nothing for one peer and, for the other, another peer_id and a host with a port that
\* is not a number
Declared(w, p) == IF w = "w1" THEN [peer_id |-> p, host |-> "10.0.0.1", port |-> 7100]
                  ELSE IF p = "peer2" THEN [peer_id |-> "peer1", host |-> "10.0.0.2", port |-> BadPort]
                  ELSE [peer_id |-> "", host |-> "", port |-> NoPort]

\* bound: operations (requests and direct index calls) started in one behaviour
MaxOps == 3

\* bound: length of the transferred file, in bytes
MaxFileLen == 3
\* bound: requests the client sends on one directory connection
NumRequests == 3
\* sock.recv(4096) of receive_message, scaled down: larger than one framed message
RecvSize == 4
\* chunk_size_bytes of the configuration (default 1 MiB), scaled down
ChunkSize == 2

ReplicationFactor == 2
MaxTasks == 5

\* the payload.files mappings a request can carry, in iteration order
FileLists == {<<>>, <<"a.txt", "b.bin">>}

\* payload.files as a value: a mapping (its items are the keys, in iteration order), a
\* list (an item is a dict with a name and a file_name, "" when it has none, or is not
\* a dict), or a value of another type
Mapping(fl) ==
    [kind |-> "mapping",
     items |-> [i \in 1..Len(fl) |-> [is_dict |-> TRUE, name |-> fl[i], file_name |-> ""]]]

\* more files than max_tasks
BulkNames == <<"a.txt", "b.bin", "c.dat", "d.dat", "e.dat", "f.dat">>

\* a list with a name, a file_name, a dict without either, an item that is a string,
\* and a name that comes twice
MixedList ==
    [kind |-> "list",
     items |-> <<[is_dict |-> TRUE, name |-> "a.txt", file_name |-> ""],
                 [is_dict |-> TRUE, name |-> "", file_name |-> "b.bin"],
                 [is_dict |-> TRUE, name |-> "", file_name |-> ""],
                 [is_dict |-> FALSE, name |-> "a.txt", file_name |-> ""],
                 [is_dict |-> TRUE, name |-> "a.txt", file_name |-> ""]>>]

\* a payload.files that is neither a mapping nor a list
NotAContainer == [kind |-> "other", items |-> <<>>]

BulkPayloads == {Mapping(BulkNames), Mapping(<<>>), MixedList, NotAContainer}

RECURSIVE ListEntries(_)
\* the names register_peer passes to add_file for a list, in order
ListEntries(items) ==
    IF items = <<>> THEN <<>>
    ELSE LET item == Head(items)
             fname == IF item.name # "" THEN item.name ELSE item.file_name
         IN IF item.is_dict /\ fname # "" THEN <<fname>> \o ListEntries(Tail(items))
            ELSE ListEntries(Tail(items))

\* the names passed to add_file when only mappings are registered
EntriesOfMappingOnly(files) ==
    IF files.kind = "mapping" THEN [i \in 1..Len(files.items) |-> files.items[i].name]
    ELSE <<>>

\* the names register_peer passes to add_file for a payload.files, in order
EntriesOf(files) ==
    IF files.kind = "mapping" THEN [i \in 1..Len(files.items) |-> files.items[i].name]
    ELSE IF files.kind = "list" THEN ListEntries(files.items)
    ELSE <<>>

\* the peers whose PeerClient registers, in the order they arrive
ClientPeers == <<"peer1", "peer2", "peer3">>
\* the file names of a directory listing, in listing order
AllFiles == <<"a.txt", "b.bin">>
\* the port a peer's PeerServer listens on, passed to register_with_server as peer_port
PeerPort(p) == IF p = "peer1" THEN 7101 ELSE IF p = "peer2" THEN 7102 ELSE 7103

\* what dict.get(pid, {}) yields for an unregistered peer
EmptyRecord == [peer_id |-> "", host |-> "", port |-> 0]

NoMessage == [type |-> "NONE", peer_id |-> "", payload |-> Mapping(<<>>), files |-> <<>>,
              file_name |-> ""]
NoResponse == [type |-> "NONE", peer_id |-> "", status |-> "", error |-> "", registered_files |-> 0,
               replication_required |-> FALSE, has_tasks |-> FALSE,
               replication_tasks |-> <<>>, file_name |-> "", results |-> <<>>]

VARIABLES
    \* FileIndex
    file_index,      \* sequence of [name, peers]: the dict file_name -> [ {peer_id, meta} ] in insertion order
    peer_registry,   \* function peer_id -> record, its DOMAIN is the set of registered peers
    lock,            \* holder of FileIndex._lock, or "free"
    \* IndexingServer.handle_client, one per connection
    pc,              \* position of each worker
    message,         \* the request a worker is handling, or handled last
    registered,      \* register_peer: number of files passed to add_file so far
    names,           \* build_replication_tasks_for_peer: the list_files() snapshot
    scan,            \* build_replication_tasks_for_peer: index of the file being examined
    tasks,           \* build_replication_tasks_for_peer: tasks built so far
    response,        \* the response a worker sent last on its connection
    \* a thread using the FileIndex API directly (operator / eviction)
    api_pc,          \* "idle", or "sweep" inside remove_peer
    api_peer,        \* the peer_id remove_peer is removing
    ops,             \* number of operations started so far
    \* history
    track,           \* which history is recorded: "none", "order", "evict" or "lin"
    reg_done,        \* (peer, file) registered by a completed REGISTRY_REQUEST and not removed since
    removed,         \* peers whose remove_peer returned, with no add_peer / registration started since
    must_see,        \* per worker: peers a search had to report (reg_done at the lookup)
    torn,            \* per worker: the lookup saw a peer whose remove_peer was half applied
    undone,          \* per worker: files of its registration's peer removed since the registration began
    clean,           \* per worker: its registration is the only source of its peer's servings
    saw_reg,         \* per worker: registrations in progress whose effect an earlier search of it reported
    lin_gap          \* per worker: the search missed a registration an earlier search had reported

VARIABLES
    \* one peer-to-peer transfer: PeerClient.download_file / replicate_file against
    \* PeerServer.handle_client
    x_src,           \* bytes of the file in the serving peer's shared directory
    x_kind,          \* the request the client makes: "OBTAIN", "REPLICATE" or "DOWNLOAD"
    x_named,         \* the request's payload carries a file_name
    x_present,       \* the file exists in the serving peer's shared directory
    x_c2s,           \* bytes sent by the client, not yet received by the server
    x_s2c,           \* bytes sent by the server, not yet received by the client
    x_closed,        \* the server closed the connection
    x_spc,           \* position of the server worker
    x_schunks,       \* server's receive_message: bytes accumulated so far
    x_req,           \* the request the server worker parsed
    x_size,          \* file_size: the size os.path.getsize gave, None before the stat
    x_off,           \* read_file_chunks: offset of the next f.read
    x_cpc,           \* position of the client
    x_cchunks,       \* client's receive_message: bytes accumulated so far
    x_meta,          \* the response metadata the client parsed
    x_remaining,     \* _chunk_stream: bytes_remaining, None when file_size is 0
    x_dest,          \* bytes written to the destination file
    x_exists,        \* write_file_chunks has opened (created or emptied) the destination file
    x_sent,          \* the framed messages the server worker has sent, in order
    x_csock,         \* the socket _connect creates for the client: none, open or closed
    \* one directory connection: a client sending requests to IndexingServer.handle_client
    c_sent,          \* number of requests the client has sent
    c_in,            \* bytes sent by the client, not yet received by the server
    c_pc,            \* position of the server worker
    c_chunks,        \* receive_message: bytes accumulated so far
    c_resps,         \* request ids answered by the responses written so far, in order
    c_out,           \* bytes sent by the server, not yet received by the client
    c_cchunks,       \* client's receive_message: bytes accumulated so far
    c_got,           \* request ids of the responses the client has parsed, in order
    c_msg,           \* the message receive_message returned to the server worker
    c_cclosed,       \* the client has closed its end of the connection
    c_accepted,      \* connections the accept loop has accepted so far
    c_running,       \* IndexingServer.running: the accept loop goes on
    \* PeerClient.register_with_server of the peers, one peer after another
    shared_dir,      \* per peer: the files in its shared directory
    replicated_dir,  \* per peer: the files in its replicated directory
    k_next,          \* number of the next peer to arrive
    k_peer,          \* the peer whose register_with_server is running
    k_pc,            \* position of that call
    k_perform,       \* per peer: the perform_replication argument of its call
    k_todo,          \* the tasks of `for t in tasks` not yet reached
    k_sent,          \* per peer: REGISTRY_REQUESTs sent by its call
    k_first,         \* per peer: payload of the response to the first request
    k_ret,           \* per peer: payload the call returned
    k_attempts,      \* per peer: the replicate_file calls made, with their outcome
    k_rereg,         \* per peer: how the re-registration of its call went
    k_listening,     \* the peers whose PeerServer has reached listen
    \* the MetricsCollector of one peer process
    m_downloads,     \* MetricsCollector.downloads: the {bytes, duration} records, in order
    m_pc,            \* position of a get_statistics call
    m_i,             \* that call: the records the running sum has gone through
    m_bytes,         \* that call: total_bytes
    m_duration       \* that call: total_duration

xfer_vars == <<x_src, x_kind, x_c2s, x_s2c, x_closed, x_spc, x_schunks, x_req, x_size, x_off, x_cpc, x_cchunks,
               x_meta, x_remaining, x_dest, x_named, x_present, x_exists, x_sent, x_csock>>
\* the part of a directory connection that only the error paths use
conn_err == <<c_msg, c_cclosed, c_accepted, c_running>>
conn_vars == <<c_sent, c_in, c_pc, c_chunks, c_resps, c_out, c_cchunks, c_got, conn_err>>

met_vars == <<m_downloads, m_pc, m_i, m_bytes, m_duration>>
cli_vars == <<shared_dir, replicated_dir, k_next, k_peer, k_pc, k_perform, k_todo, k_sent, k_first,
              k_ret, k_attempts, k_rereg, k_listening, m_downloads, m_pc, m_i, m_bytes, m_duration>>

idx_vars == <<file_index, peer_registry, lock, pc, message, registered, names, scan, tasks,
              response, api_pc, api_peer, ops, track, reg_done, removed, must_see, torn, undone, clean, saw_reg, lin_gap>>

\* the directory's variables other than the two dictionaries of the index
idx_rest == <<lock, pc, message, registered, names, scan, tasks, response, api_pc, api_peer, ops,
              track, reg_done, removed, must_see, torn, undone, clean, saw_reg, lin_gap>>

vars == <<idx_vars, xfer_vars, conn_vars, cli_vars>>

\* ------------------------------------------------------------------------
\* FileIndex: pure operations on the two dictionaries
\* ------------------------------------------------------------------------
Range(s) == {s[i] : i \in 1..Len(s)}

RECURSIVE FilterSeq(_, _)
\* [x for x in s if x.peer_id != p]
FilterSeq(s, p) ==
    IF s = <<>> THEN <<>>
    ELSE IF Head(s).peer_id # p THEN <<Head(s)>> \o FilterSeq(Tail(s), p)
         ELSE FilterSeq(Tail(s), p)

Keys(fi) == {fi[i].name : i \in 1..Len(fi)}

\* the serving list of the first file of the index, whatever the name asked for
GetFirst(fi, f) == IF fi # <<>> THEN fi[1].peers ELSE <<>>

\* file_index.get(file_name, [])
Get(fi, f) ==
    IF f \in Keys(fi) THEN (CHOOSE e \in Range(fi) : e.name = f).peers ELSE <<>>

PeerIdsOf(peers) == {peers[i].peer_id : i \in 1..Len(peers)}

\* add_peer that keeps the record of a peer already registered
AddPeerOpKeep(reg, p, info) ==
    [q \in (DOMAIN reg) \cup {p} |->
        IF q \in DOMAIN reg THEN reg[q]
        ELSE [peer_id |-> IF info.peer_id # "" THEN info.peer_id ELSE p,
              host |-> info.host, port |-> info.port]]

\* FileIndex.add_peer: {"peer_id": peer_id, **peer_info}, where a peer_id key of
\* peer_info (info.peer_id # "") takes the place of the first
AddPeerOp(reg, p, info) ==
    [q \in (DOMAIN reg) \cup {p} |->
        IF q = p THEN [peer_id |-> IF info.peer_id # "" THEN info.peer_id ELSE p,
                       host |-> info.host, port |-> info.port]
        ELSE reg[q]]

\* peer_registry.pop(peer_id, None)
PopPeerOp(reg, p) == [q \in (DOMAIN reg) \ {p} |-> reg[q]]

\* add_file that appends only to an empty serving list
AddFileOpFirstOnly(fi, p, f, m) ==
    IF f \notin Keys(fi) THEN Append(fi, [name |-> f, peers |-> <<[peer_id |-> p, meta |-> m]>>])
    ELSE fi

\* add_file without the duplicate check
AddFileOpNoCheck(fi, p, f, m) ==
    LET entry == [peer_id |-> p, meta |-> m] IN
    IF f \notin Keys(fi) THEN Append(fi, [name |-> f, peers |-> <<entry>>])
    ELSE [i \in 1..Len(fi) |->
            IF fi[i].name = f THEN [name |-> f, peers |-> Append(fi[i].peers, entry)]
            ELSE fi[i]]

\* add_file that overwrites the meta of an existing serving
AddFileOpOverwrite(fi, p, f, m) ==
    LET entry == [peer_id |-> p, meta |-> m] IN
    IF f \notin Keys(fi) THEN Append(fi, [name |-> f, peers |-> <<entry>>])
    ELSE [i \in 1..Len(fi) |->
            IF fi[i].name # f THEN fi[i]
            ELSE IF p \notin PeerIdsOf(fi[i].peers)
                 THEN [name |-> f, peers |-> Append(fi[i].peers, entry)]
                 ELSE [name |-> f, peers |-> [j \in 1..Len(fi[i].peers) |->
                          IF fi[i].peers[j].peer_id = p THEN entry ELSE fi[i].peers[j]]]]

\* FileIndex.add_file
AddFileOp(fi, p, f, m) ==
    LET entry == [peer_id |-> p, meta |-> m] IN
    IF f \notin Keys(fi) THEN Append(fi, [name |-> f, peers |-> <<entry>>])
    ELSE [i \in 1..Len(fi) |->
            IF fi[i].name = f /\ p \notin PeerIdsOf(fi[i].peers)
            THEN [name |-> f, peers |-> Append(fi[i].peers, entry)]
            ELSE fi[i]]

\* the emptied lists are left in the dictionary
DropEmptyKeep(fi) == fi

RECURSIVE DropEmpty(_)
\* del file_index[fname] for every key whose list became empty
DropEmpty(fi) ==
    IF fi = <<>> THEN <<>>
    ELSE IF Head(fi).peers = <<>> THEN DropEmpty(Tail(fi))
         ELSE <<Head(fi)>> \o DropEmpty(Tail(fi))

\* FileIndex.remove_file
RemoveFileOp(fi, p, f) ==
    IF Get(fi, f) = <<>> THEN fi
    ELSE DropEmpty([i \in 1..Len(fi) |->
            IF fi[i].name = f THEN [name |-> f, peers |-> FilterSeq(fi[i].peers, p)]
            ELSE fi[i]])

\* FileIndex.remove_peer, the loop over the files
SweepOp(fi, p) ==
    DropEmpty([i \in 1..Len(fi) |-> [name |-> fi[i].name, peers |-> FilterSeq(fi[i].peers, p)]])

\* FileIndex.get_peers_for_file
GetPeersForFile(fi, reg, f) ==
    LET peers == Get(fi, f) IN
    [i \in 1..Len(peers) |->
        [peer_id |-> peers[i].peer_id,
         peer |-> IF peers[i].peer_id \in DOMAIN reg THEN reg[peers[i].peer_id] ELSE EmptyRecord,
         meta |-> peers[i].meta]]

\* FileIndex.list_files
ListFiles(fi) == [i \in 1..Len(fi) |-> fi[i].name]

\* the lock is not taken
LockFreeAlways == TRUE

\* `with self._lock:` can be entered
LockFree == lock = "free"

\* ------------------------------------------------------------------------
\* Directory: initial state
\* ------------------------------------------------------------------------
IdxInit ==
    /\ file_index = <<>>
    /\ peer_registry = [q \in {} |-> EmptyRecord]
    /\ lock = "free"
    /\ pc = [w \in Workers |-> "recv"]
    /\ message = [w \in Workers |-> NoMessage]
    /\ registered = [w \in Workers |-> 0]
    /\ names = [w \in Workers |-> <<>>]
    /\ scan = [w \in Workers |-> 0]
    /\ tasks = [w \in Workers |-> <<>>]
    /\ response = [w \in Workers |-> NoResponse]
    /\ api_pc = "idle"
    /\ api_peer = ""
    /\ ops = 0
    /\ track \in {"none", "order", "evict", "lin", "bulk"}
    /\ reg_done = {}
    /\ removed = {}
    /\ must_see = [w \in Workers |-> {}]
    /\ torn = [w \in Workers |-> FALSE]
    /\ undone = [w \in Workers |-> {}]
    /\ clean = [w \in Workers |-> FALSE]
    /\ saw_reg = [w \in Workers |-> {}]
    /\ lin_gap = [w \in Workers |-> FALSE]

\* ------------------------------------------------------------------------
\* History bookkeeping (no effect on the program state)
\* ------------------------------------------------------------------------
\* worker v is inside register_peer, after its add_peer
InReg(v) == pc[v] \in {"add_file", "list_files", "check_rf", "check_target", "pick_source"}

Serves(fi, p) == \E f \in Files : p \in PeerIdsOf(Get(fi, f))

\* some other thread operated on peer p: registrations of p in progress are no longer
\* the only source of p's servings
Touched(p) == [v \in Workers |-> clean[v] /\ ~(InReg(v) /\ message[v].peer_id = p)]

\* the registration worker w starts for p will be the only source of p's servings
Fresh(w, p) == /\ ~Serves(file_index, p)
               /\ ~\E u \in Workers \ {w} : InReg(u) /\ message[u].peer_id = p

\* a removal of (p, f) for every f in fs happened
Undo(p, fs) == [v \in Workers |->
                  IF InReg(v) /\ message[v].peer_id = p THEN undone[v] \cup fs ELSE undone[v]]

\* the lookup of f happens while remove_peer has popped the registry entry of a peer
\* that is still in f's serving list
TornRead(f) == api_pc = "sweep" /\ api_peer \in PeerIdsOf(Get(file_index, f))

\* the payload.files values a request can carry: mappings, and in the runs that look
\* at the payload's form and at max_tasks the values of BulkPayloads
FilePayloads == IF track = "bulk" THEN BulkPayloads ELSE {Mapping(fl) : fl \in FileLists}

\* a further operation may start
Begin == ops < MaxOps /\ ops' = ops + 1

\* the history variables follow the program only in the mode that records them
Ord(new, old) == IF track = "order" THEN new ELSE old
Evi(new, old) == IF track = "evict" THEN new ELSE old
Lin(new, old) == IF track = "lin" THEN new ELSE old

hist_vars == <<track, reg_done, removed, must_see, torn, undone, clean, saw_reg, lin_gap>>
task_vars == <<names, scan, tasks>>
api_vars == <<api_pc, api_peer>>

\* ------------------------------------------------------------------------
\* IndexingServer.handle_client / RegistryService.register_peer
\* ------------------------------------------------------------------------
\* host/port stored by register_peer
FinalHost(h) == IF h # "" THEN h ELSE ClientHost
\* the socket's port whatever the peer declares
FinalPortSocket(n) == ClientPort
FinalPort(n) == IF n # NoPort /\ n # BadPort THEN n ELSE ClientPort

\* REGISTRY_REQUEST without peer_id, registered under the empty id
RegistryMissingPeerIdRegisters(w) ==
    /\ pc[w] = "recv"
    /\ Begin
    /\ \E fp \in FilePayloads :
        /\ message' = [message EXCEPT ![w] = [NoMessage EXCEPT !.type = "REGISTRY_REQUEST",
                                                !.payload = fp, !.files = EntriesOf(fp)]]
        /\ response' = [response EXCEPT ![w] = [NoResponse EXCEPT !.type = "REGISTRY_RESPONSE",
                                                  !.status = "ok"]]
    /\ peer_registry' = AddPeerOp(peer_registry, "",
                                  [peer_id |-> "", host |-> FinalHost(Declared(w, "").host), port |-> FinalPort(Declared(w, "").port)])
    /\ pc' = [pc EXCEPT ![w] = "recv"]
    /\ UNCHANGED <<file_index, lock, registered, task_vars, api_vars, hist_vars>>
    /\ UNCHANGED <<xfer_vars, conn_vars, cli_vars>>

\* REGISTRY_REQUEST without peer_id
RegistryMissingPeerId(w) ==
    /\ pc[w] = "recv"
    /\ Begin
    /\ \E fp \in FilePayloads :
        /\ message' = [message EXCEPT ![w] = [NoMessage EXCEPT !.type = "REGISTRY_REQUEST",
                                                !.payload = fp, !.files = EntriesOf(fp)]]
        /\ response' = [response EXCEPT ![w] = [NoResponse EXCEPT !.type = "REGISTRY_RESPONSE",
                                                  !.status = "error", !.error = "missing peer_id"]]
    /\ pc' = [pc EXCEPT ![w] = "recv"]
    /\ UNCHANGED <<file_index, peer_registry, lock, registered, task_vars, api_vars, hist_vars>>
    /\ UNCHANGED <<xfer_vars, conn_vars, cli_vars>>

\* REGISTRY_REQUEST with a peer_id: up to and including add_peer
RegistryAddPeer(w) ==
    /\ pc[w] = "recv"
    /\ Begin
    /\ LockFree
    /\ \E p \in Peers, fp \in FilePayloads :
        LET d == Declared(w, p)
            fl == EntriesOf(fp)
        IN
        /\ message' = [message EXCEPT ![w] = [NoMessage EXCEPT !.type = "REGISTRY_REQUEST",
                                                !.peer_id = p, !.payload = fp, !.files = fl]]
        /\ peer_registry' = AddPeerOp(peer_registry, p, [peer_id |-> d.peer_id, host |-> FinalHost(d.host),
                                                         port |-> FinalPort(d.port)])
        /\ removed' = Evi(removed \ {p}, removed)
        /\ clean' = Lin([v \in Workers |->
                        IF v = w THEN Fresh(w, p) ELSE Touched(p)[v]], clean)
        /\ pc' = [pc EXCEPT ![w] = IF fl = <<>> THEN "list_files" ELSE "add_file"]
    /\ registered' = [registered EXCEPT ![w] = 0]
    /\ response' = [response EXCEPT ![w] = NoResponse]
    /\ undone' = Ord([undone EXCEPT ![w] = {}], undone)
    /\ must_see' = Ord([must_see EXCEPT ![w] = {}], must_see)
    /\ torn' = [torn EXCEPT ![w] = FALSE]
    /\ lin_gap' = Lin([lin_gap EXCEPT ![w] = FALSE], lin_gap)
    /\ UNCHANGED <<track, file_index, lock, task_vars, api_vars, reg_done, saw_reg>>
    /\ UNCHANGED <<xfer_vars, conn_vars, cli_vars>>

\* one iteration of `for fname, meta in files.items()`
RegistryAddFile(w) ==
    /\ pc[w] = "add_file"
    /\ LockFree
    /\ LET f == message[w].files[registered[w] + 1] IN
        file_index' = AddFileOp(file_index, message[w].peer_id, f, MetaOf(w))
    /\ registered' = [registered EXCEPT ![w] = @ + 1]
    /\ pc' = [pc EXCEPT ![w] = IF registered[w] + 1 = Len(message[w].files)
                               THEN "list_files" ELSE "add_file"]
    /\ UNCHANGED <<ops, peer_registry, lock, message, task_vars, response, api_vars, hist_vars>>
    /\ UNCHANGED <<xfer_vars, conn_vars, cli_vars>>

\* a response whose registered_files counts the files of the index
RegistryResponseCountsIndex(w, ts) ==
    [NoResponse EXCEPT !.type = "REGISTRY_RESPONSE", !.peer_id = message[w].peer_id,
                       !.status = "ok", !.registered_files = Len(file_index),
                       !.replication_required = (ts # <<>>), !.has_tasks = (ts # <<>>),
                       !.replication_tasks = ts]

\* a response that always carries the replication_tasks field
RegistryResponseAlwaysTasks(w, ts) ==
    [NoResponse EXCEPT !.type = "REGISTRY_RESPONSE", !.peer_id = message[w].peer_id,
                       !.status = "ok", !.registered_files = registered[w],
                       !.replication_required = (ts # <<>>), !.has_tasks = TRUE,
                       !.replication_tasks = ts]

\* the REGISTRY_RESPONSE of register_peer for a task list; has_tasks says whether the
\* payload has the replication_tasks field
RegistryResponse(w, ts) ==
    [NoResponse EXCEPT !.type = "REGISTRY_RESPONSE", !.peer_id = message[w].peer_id,
                       !.status = "ok", !.registered_files = registered[w],
                       !.replication_required = (ts # <<>>), !.has_tasks = (ts # <<>>),
                       !.replication_tasks = ts]

\* register_peer returns and handle_client sends the response
Finish(w, ts) ==
    /\ response' = [response EXCEPT ![w] = RegistryResponse(w, ts)]
    /\ pc' = [pc EXCEPT ![w] = "recv"]
    /\ names' = [names EXCEPT ![w] = <<>>]
    /\ scan' = [scan EXCEPT ![w] = 0]
    /\ tasks' = [tasks EXCEPT ![w] = <<>>]
    /\ reg_done' = Ord(reg_done \cup {<<message[w].peer_id, f>> : f \in Range(message[w].files) \ undone[w]}, reg_done)
    /\ undone' = Ord([undone EXCEPT ![w] = {}], undone)
    /\ clean' = Lin([clean EXCEPT ![w] = FALSE], clean)
    /\ saw_reg' = Lin([v \in Workers |-> saw_reg[v] \ {w}], saw_reg)

\* the loop going on to the end of the listing whatever the number of tasks
ContinueNoCap(w, ts) ==
    IF scan[w] = Len(names[w])
    THEN Finish(w, ts)
    ELSE /\ scan' = [scan EXCEPT ![w] = @ + 1]
         /\ tasks' = [tasks EXCEPT ![w] = ts]
         /\ pc' = [pc EXCEPT ![w] = "check_rf"]
         /\ UNCHANGED <<track, names, response, reg_done, undone, clean, saw_reg>>

\* the loop of build_replication_tasks_for_peer moves on after file number scan[w]
Continue(w, ts) ==
    IF Len(ts) >= MaxTasks \/ scan[w] = Len(names[w])
    THEN Finish(w, ts)
    ELSE /\ scan' = [scan EXCEPT ![w] = @ + 1]
         /\ tasks' = [tasks EXCEPT ![w] = ts]
         /\ pc' = [pc EXCEPT ![w] = "check_rf"]
         /\ UNCHANGED <<track, names, response, reg_done, undone, clean, saw_reg>>

\* build_replication_tasks_for_peer: `for fname in self.index.list_files()`
BuildListFiles(w) ==
    /\ pc[w] = "list_files"
    /\ LockFree
    /\ IF file_index = <<>>
       THEN Finish(w, <<>>)
       ELSE /\ names' = [names EXCEPT ![w] = ListFiles(file_index)]
            /\ scan' = [scan EXCEPT ![w] = 1]
            /\ tasks' = [tasks EXCEPT ![w] = <<>>]
            /\ pc' = [pc EXCEPT ![w] = "check_rf"]
            /\ UNCHANGED <<track, response, reg_done, undone, clean, saw_reg>>
    /\ UNCHANGED <<track, ops, file_index, peer_registry, lock, message, registered, api_vars,
                   removed, must_see, torn, lin_gap>>
    /\ UNCHANGED <<xfer_vars, conn_vars, cli_vars>>

\* first read of the serving list: skip the file when it has replication_factor servings
BuildCheckFactor(w) ==
    /\ pc[w] = "check_rf"
    /\ LockFree
    /\ LET f == names[w][scan[w]] IN
        /\ torn' = [torn EXCEPT ![w] = @ \/ TornRead(f)]
        /\ IF Len(GetPeersForFile(file_index, peer_registry, f)) >= ReplicationFactor
           THEN Continue(w, tasks[w])
           ELSE /\ pc' = [pc EXCEPT ![w] = "check_target"]
                /\ UNCHANGED <<track, task_vars, response, reg_done, undone, clean, saw_reg>>
    /\ UNCHANGED <<track, ops, file_index, peer_registry, lock, message, registered, api_vars,
                   removed, must_see, lin_gap>>
    /\ UNCHANGED <<xfer_vars, conn_vars, cli_vars>>

\* second read: skip the file when the target already serves it
BuildCheckTarget(w) ==
    /\ pc[w] = "check_target"
    /\ LockFree
    /\ LET f == names[w][scan[w]] IN
        /\ torn' = [torn EXCEPT ![w] = @ \/ TornRead(f)]
        /\ IF message[w].peer_id \in PeerIdsOf(GetPeersForFile(file_index, peer_registry, f))
           THEN Continue(w, tasks[w])
           ELSE /\ pc' = [pc EXCEPT ![w] = "pick_source"]
                /\ UNCHANGED <<track, task_vars, response, reg_done, undone, clean, saw_reg>>
    /\ UNCHANGED <<track, ops, file_index, peer_registry, lock, message, registered, api_vars,
                   removed, must_see, lin_gap>>
    /\ UNCHANGED <<xfer_vars, conn_vars, cli_vars>>

\* the task for file f with the first serving as source
TaskFor(f, source) ==
    [file_name |-> f,
     source |-> [peer_id |-> source.peer_id, host |-> source.peer.host, port |-> source.peer.port]]

\* third read: take sources[0], append the task
BuildPickSource(w) ==
    /\ pc[w] = "pick_source"
    /\ LockFree
    /\ LET f == names[w][scan[w]]
           sources == GetPeersForFile(file_index, peer_registry, f)
       IN
        /\ torn' = [torn EXCEPT ![w] = @ \/ TornRead(f)]
        /\ IF sources = <<>> \/ sources[1].peer.host = "" \/ sources[1].peer.port = 0
           THEN Continue(w, tasks[w])
           ELSE Continue(w, Append(tasks[w], TaskFor(f, sources[1])))
    /\ UNCHANGED <<track, ops, file_index, peer_registry, lock, message, registered, api_vars,
                   removed, must_see, lin_gap>>
    /\ UNCHANGED <<xfer_vars, conn_vars, cli_vars>>

\* ------------------------------------------------------------------------
\* SearchService.search
\* ------------------------------------------------------------------------
\* registrations in progress, by another worker, whose servings a result reports
SeenRegs(w, results) ==
    {v \in Workers \ {w} : InReg(v) /\ clean[v] /\ message[v].peer_id \in PeerIdsOf(results)}

\* a registration whose effect this worker's earlier search reported, that lists f,
\* and that the result for f does not show
MissedReg(w, f, results) ==
    \E v \in saw_reg[w] : /\ InReg(v) /\ clean[v]
                          /\ f \in Range(message[v].files)
                          /\ message[v].peer_id \notin PeerIdsOf(results)

\* payload.query: a string, or an object that may hold a file_name
Queries ==
    {[is_str |-> TRUE, text |-> f, file_name |-> ""] : f \in Files \cup {""}}
        \cup {[is_str |-> FALSE, text |-> "", file_name |-> f] : f \in Files \cup {""}}

\* file_name = query if isinstance(query, str) else query.get("file_name")
QueryFileName(q) == IF q.is_str THEN q.text ELSE q.file_name

\* SEARCH_REQUEST with a file_name
Search(w) ==
    /\ pc[w] = "recv"
    /\ Begin
    /\ LockFree
    /\ \E query \in Queries, p \in {""} :
        LET f == QueryFileName(query)
            results == GetPeersForFile(file_index, peer_registry, f)
        IN
        /\ f # ""
        /\ message' = [message EXCEPT ![w] = [NoMessage EXCEPT !.type = "SEARCH_REQUEST",
                                                !.peer_id = p, !.file_name = f]]
        /\ response' = [response EXCEPT ![w] = [NoResponse EXCEPT !.type = "SEARCH_RESPONSE",
                                                  !.peer_id = p, !.status = "ok",
                                                  !.file_name = f, !.results = results]]
        /\ must_see' = Ord([must_see EXCEPT ![w] = {q \in Peers : <<q, f>> \in reg_done}], must_see)
        /\ torn' = [torn EXCEPT ![w] = TornRead(f)]
        /\ lin_gap' = Lin([lin_gap EXCEPT ![w] = MissedReg(w, f, results)], lin_gap)
        /\ saw_reg' = Lin([saw_reg EXCEPT ![w] = @ \cup SeenRegs(w, results)], saw_reg)
    /\ pc' = [pc EXCEPT ![w] = "recv"]
    /\ UNCHANGED <<track, file_index, peer_registry, lock, registered, task_vars, api_vars,
                   reg_done, removed, undone, clean>>
    /\ UNCHANGED <<xfer_vars, conn_vars, cli_vars>>

\* SEARCH_REQUEST without a file_name
SearchMissingFileName(w) ==
    /\ pc[w] = "recv"
    /\ Begin
    /\ \E query \in Queries, p \in {""} :
        /\ QueryFileName(query) = ""
        /\ message' = [message EXCEPT ![w] = [NoMessage EXCEPT !.type = "SEARCH_REQUEST", !.peer_id = p]]
        /\ response' = [response EXCEPT ![w] = [NoResponse EXCEPT !.type = "SEARCH_RESPONSE",
                                                  !.peer_id = p, !.status = "error",
                                                  !.error = "missing file_name"]]
    /\ pc' = [pc EXCEPT ![w] = "recv"]
    /\ UNCHANGED <<file_index, peer_registry, lock, registered, task_vars, api_vars, hist_vars>>
    /\ UNCHANGED <<xfer_vars, conn_vars, cli_vars>>

\* ------------------------------------------------------------------------
\* IndexingServer.handle_client: the other branches
\* ------------------------------------------------------------------------
\* a message of another type, after whose answer the connection is closed
UnknownTypeCloses(w) ==
    /\ pc[w] = "recv"
    /\ Begin
    /\ message' = [message EXCEPT ![w] = [NoMessage EXCEPT !.type = "HEARTBEAT"]]
    /\ response' = [response EXCEPT ![w] = [NoResponse EXCEPT !.type = "REGISTRY_RESPONSE",
                                              !.status = "error",
                                              !.error = "unknown message type: HEARTBEAT"]]
    /\ pc' = [pc EXCEPT ![w] = "closed"]
    /\ UNCHANGED <<file_index, peer_registry, lock, registered, task_vars, api_vars, hist_vars>>
    /\ UNCHANGED <<xfer_vars, conn_vars, cli_vars>>

\* a message whose type is neither REGISTRY_REQUEST nor SEARCH_REQUEST
UnknownType(w) ==
    /\ pc[w] = "recv"
    /\ Begin
    /\ message' = [message EXCEPT ![w] = [NoMessage EXCEPT !.type = "HEARTBEAT"]]
    /\ response' = [response EXCEPT ![w] = [NoResponse EXCEPT !.type = "REGISTRY_RESPONSE",
                                              !.status = "error",
                                              !.error = "unknown message type: HEARTBEAT"]]
    /\ pc' = [pc EXCEPT ![w] = "recv"]
    /\ UNCHANGED <<file_index, peer_registry, lock, registered, task_vars, api_vars, hist_vars>>
    /\ UNCHANGED <<xfer_vars, conn_vars, cli_vars>>

\* ------------------------------------------------------------------------
\* FileIndex operations called directly by another thread
\* ------------------------------------------------------------------------
ApiInfo == [peer_id |-> "", host |-> "10.0.0.1", port |-> 7100]

ApiAddPeer ==
    /\ api_pc = "idle"
    /\ Begin
    /\ LockFree
    /\ \E p \in Peers :
        /\ peer_registry' = AddPeerOp(peer_registry, p, ApiInfo)
        /\ removed' = Evi(removed \ {p}, removed)
    /\ UNCHANGED <<track, file_index, lock, pc, message, registered, task_vars, response, api_vars,
                   reg_done, must_see, torn, undone, clean, saw_reg, lin_gap>>
    /\ UNCHANGED <<xfer_vars, conn_vars, cli_vars>>

ApiAddFile ==
    /\ api_pc = "idle"
    /\ Begin
    /\ LockFree
    /\ \E p \in Peers, f \in Files :
        /\ file_index' = AddFileOp(file_index, p, f, "m2")
        /\ removed' = Evi(removed \ {p}, removed)
        /\ clean' = Lin(Touched(p), clean)
    /\ UNCHANGED <<track, peer_registry, lock, pc, message, registered, task_vars, response, api_vars,
                   reg_done, must_see, torn, undone, saw_reg, lin_gap>>
    /\ UNCHANGED <<xfer_vars, conn_vars, cli_vars>>

ApiRemoveFile ==
    /\ api_pc = "idle"
    /\ Begin
    /\ LockFree
    /\ \E p \in Peers, f \in Files :
        /\ file_index' = RemoveFileOp(file_index, p, f)
        /\ reg_done' = Ord(reg_done \ {<<p, f>>}, reg_done)
        /\ undone' = Ord(Undo(p, {f}), undone)
        /\ clean' = Lin(Touched(p), clean)
    /\ UNCHANGED <<track, peer_registry, lock, pc, message, registered, task_vars, response, api_vars,
                   removed, must_see, torn, saw_reg, lin_gap>>
    /\ UNCHANGED <<xfer_vars, conn_vars, cli_vars>>

\* remove_peer: takes the lock and pops the registry entry
ApiRemovePeerPop ==
    /\ api_pc = "idle"
    /\ Begin
    /\ LockFree
    /\ \E p \in Peers :
        /\ peer_registry' = PopPeerOp(peer_registry, p)
        /\ api_peer' = p
        /\ reg_done' = Ord(reg_done \ {<<p, f>> : f \in Files}, reg_done)
        /\ undone' = Ord(Undo(p, Files), undone)
        /\ clean' = Lin(Touched(p), clean)
    /\ lock' = "api"
    /\ api_pc' = "sweep"
    /\ UNCHANGED <<track, file_index, pc, message, registered, task_vars, response,
                   removed, must_see, torn, saw_reg, lin_gap>>
    /\ UNCHANGED <<xfer_vars, conn_vars, cli_vars>>

\* remove_peer: sweeps the serving lists, releases the lock and returns
ApiRemovePeerSweep ==
    /\ api_pc = "sweep"
    /\ file_index' = SweepOp(file_index, api_peer)
    /\ lock' = "free"
    /\ api_pc' = "idle"
    /\ api_peer' = ""
    /\ removed' = Evi(removed \cup {api_peer}, removed)
    /\ UNCHANGED <<track, ops, peer_registry, pc, message, registered, task_vars, response,
                   reg_done, must_see, torn, undone, clean, saw_reg, lin_gap>>
    /\ UNCHANGED <<xfer_vars, conn_vars, cli_vars>>

\* ------------------------------------------------------------------------
\* ProtocolHandler: the newline-framed codec on a byte stream
\* ------------------------------------------------------------------------
\* A stream is a sequence of bytes. The JSON text of a message takes two bytes of the
\* stream (so that it can arrive in pieces), the delimiter one.
NullMsg == [type |-> "", status |-> "", file_size |-> 0, chunk_size |-> 0, id |-> 0,
            error |-> "", file_name |-> ""]
Raw(b) == [k |-> "raw", v |-> [NullMsg EXCEPT !.id = b]]
\* b"\n"
NL == Raw(10)
\* the values a byte of a file can have (one of them is the newline)
FileBytes == {0, 10}

Min(a, b) == IF a < b THEN a ELSE b

\* ProtocolHandler.serialize: json.dumps(message) + "\n"
Serialize(m) == <<[k |-> "open", v |-> m], [k |-> "close", v |-> m], NL>>

ProtocolError == [NullMsg EXCEPT !.type = "ProtocolError"]

\* ProtocolHandler.parse_message: json.loads of one line
ParseMessage(line) ==
    IF Len(line) = 2 /\ line[1].k = "open" /\ line[2].k = "close" /\ line[1].v = line[2].v
    THEN line[1].v
    ELSE ProtocolError

FirstNL(s) == CHOOSE i \in 1..Len(s) : s[i] = NL /\ \A j \in 1..(i - 1) : s[j] # NL

\* ProtocolHandler.receive_message, one iteration of its loop with a non-empty recv
\* result: when the accumulated bytes hold a newline, the message is the line before the
\* first newline and the function returns; what follows the newline (_rest) is not kept.
ReceiveStep(chunks, data) ==
    LET joined == chunks \o data IN
    IF NL \in Range(joined)
    THEN [complete |-> TRUE, msg |-> ParseMessage(SubSeq(joined, 1, FirstNL(joined) - 1)),
          chunks |-> <<>>]
    ELSE [complete |-> FALSE, msg |-> NullMsg, chunks |-> joined]

\* ------------------------------------------------------------------------
\* A transfer: PeerServer.handle_client and PeerClient.download_file / replicate_file
\* ------------------------------------------------------------------------
None == -1

RequestType(kind) == IF kind = "REPLICATE" THEN "REPLICATE_REQUEST"
                     ELSE IF kind = "DOWNLOAD" THEN "DOWNLOAD_REQUEST" ELSE "OBTAIN_REQUEST"
\* the response type download_file expects, expected by replicate_file as well
ResponseTypeObtainOnly(kind) == "OBTAIN_RESPONSE"
ResponseType(kind) == IF kind = "REPLICATE" THEN "REPLICATE_RESPONSE" ELSE "OBTAIN_RESPONSE"

RECURSIVE SeqsUpTo(_, _)
\* the byte strings of length at most n
SeqsUpTo(S, n) ==
    IF n = 0 THEN {<<>>}
    ELSE LET shorter == SeqsUpTo(S, n - 1) IN
         shorter \cup {Append(q, Raw(b)) : q \in shorter, b \in S}

XferIdle ==
    /\ x_src = <<>>
    /\ x_kind = "OBTAIN"
    /\ x_c2s = <<>>
    /\ x_s2c = <<>>
    /\ x_closed = FALSE
    /\ x_spc = "idle"
    /\ x_schunks = <<>>
    /\ x_req = NullMsg
    /\ x_size = None
    /\ x_off = 0
    /\ x_cpc = "idle"
    /\ x_cchunks = <<>>
    /\ x_meta = NullMsg
    /\ x_remaining = None
    /\ x_dest = <<>>
    /\ x_named = TRUE
    /\ x_present = TRUE
    /\ x_exists = FALSE
    /\ x_sent = <<>>
    /\ x_csock = "none"

XferInit ==
    /\ x_src \in SeqsUpTo(FileBytes, MaxFileLen)
    /\ x_kind \in {"OBTAIN", "REPLICATE", "DOWNLOAD"}
    /\ x_named \in BOOLEAN
    /\ x_present \in BOOLEAN
    /\ (~x_present => x_src = <<>>)
    /\ x_exists = FALSE
    /\ x_sent = <<>>
    /\ x_c2s = <<>>
    /\ x_s2c = <<>>
    /\ x_closed = FALSE
    /\ x_spc = "recv"
    /\ x_schunks = <<>>
    /\ x_req = NullMsg
    /\ x_size = None
    /\ x_off = 0
    /\ x_cpc = "connect"
    /\ x_cchunks = <<>>
    /\ x_meta = NullMsg
    /\ x_remaining = None
    /\ x_dest = <<>>
    /\ x_csock = "none"

\* the file the client asks for
WantedFile == "a.txt"

\* client: _connect returns the connected socket and the request is sent; a request made
\* without a file name carries none
CliSendRequest ==
    /\ x_cpc = "connect"
    /\ x_c2s' = x_c2s \o Serialize([NullMsg EXCEPT !.type = RequestType(x_kind),
                                       !.file_name = IF x_named THEN WantedFile ELSE ""])
    /\ x_cpc' = "header"
    /\ x_csock' = "open"
    /\ UNCHANGED <<x_src, x_kind, x_named, x_present, x_s2c, x_closed, x_spc, x_schunks, x_req,
                   x_size, x_off, x_cchunks, x_meta, x_remaining, x_dest, x_exists, x_sent>>
    /\ UNCHANGED <<idx_vars, conn_vars, cli_vars>>

\* server: receive_message(conn)
SrvReceive ==
    /\ x_spc = "recv"
    /\ x_c2s # <<>>
    /\ \E n \in 1..Min(RecvSize, Len(x_c2s)) :
        LET r == ReceiveStep(x_schunks, SubSeq(x_c2s, 1, n)) IN
        /\ x_c2s' = SubSeq(x_c2s, n + 1, Len(x_c2s))
        /\ x_schunks' = r.chunks
        /\ x_req' = r.msg
        /\ x_spc' = IF ~r.complete THEN "recv"
                    ELSE IF r.msg = ProtocolError THEN "closed" ELSE "header"
        /\ x_closed' = (r.complete /\ r.msg = ProtocolError)
    /\ UNCHANGED <<x_csock, x_src, x_kind, x_named, x_present, x_s2c, x_size, x_off, x_cpc, x_cchunks,
                   x_meta, x_remaining, x_dest, x_exists, x_sent>>
    /\ UNCHANGED <<idx_vars, conn_vars, cli_vars>>

\* the request types the peer server serves
Served == {"OBTAIN_REQUEST", "REPLICATE_REQUEST"}

\* resp_type of the peer server; first the OBTAIN schema used for every request
MirrorTypeObtainOnly(mtype) == "OBTAIN_RESPONSE"
MirrorType(mtype) == IF mtype = "REPLICATE_REQUEST" THEN "REPLICATE_RESPONSE" ELSE "OBTAIN_RESPONSE"

\* server: send one message of an error branch and return; the finally clause closes
SrvReply(resp) ==
    /\ x_s2c' = x_s2c \o Serialize(resp)
    /\ x_sent' = Append(x_sent, resp)
    /\ x_closed' = TRUE
    /\ x_spc' = "closed"
    /\ UNCHANGED <<x_csock, x_src, x_kind, x_named, x_present, x_c2s, x_schunks, x_req, x_size, x_off,
                   x_cpc, x_cchunks, x_meta, x_remaining, x_dest, x_exists>>
    /\ UNCHANGED <<idx_vars, conn_vars, cli_vars>>

\* server: a request of a type other than OBTAIN_REQUEST and REPLICATE_REQUEST
SrvUnexpectedType ==
    /\ x_spc = "header"
    /\ x_req.type \notin Served
    /\ x_req.type = "DOWNLOAD_REQUEST"
    /\ SrvReply([NullMsg EXCEPT !.type = "OBTAIN_RESPONSE", !.status = "error",
                                !.error = "unexpected message type: DOWNLOAD_REQUEST"])

\* server: a request without file_name
SrvMissingFileName ==
    /\ x_spc = "header"
    /\ x_req.type \in Served
    /\ x_req.file_name = ""
    /\ SrvReply([NullMsg EXCEPT !.type = MirrorType(x_req.type), !.status = "error",
                                !.error = "missing file_name"])

\* server: the shared directory has no such file
\* the same branch going on to stream after the error response
SrvFileNotFoundStreams ==
    /\ x_spc = "header"
    /\ x_req.type \in Served
    /\ x_req.file_name # ""
    /\ ~x_present
    /\ LET resp == [NullMsg EXCEPT !.type = MirrorType(x_req.type), !.status = "error",
                                   !.error = "file_not_found", !.file_name = x_req.file_name] IN
        /\ x_s2c' = x_s2c \o Serialize(resp) \o <<Raw(0)>>
        /\ x_sent' = Append(x_sent, resp)
    /\ x_off' = 1
    /\ x_closed' = TRUE
    /\ x_spc' = "closed"
    /\ UNCHANGED <<x_csock, x_src, x_kind, x_named, x_present, x_c2s, x_schunks, x_req, x_size,
                   x_cpc, x_cchunks, x_meta, x_remaining, x_dest, x_exists>>
    /\ UNCHANGED <<idx_vars, conn_vars, cli_vars>>
SrvFileNotFound ==
    /\ x_spc = "header"
    /\ x_req.type \in Served
    /\ x_req.file_name # ""
    /\ ~x_present
    /\ SrvReply([NullMsg EXCEPT !.type = MirrorType(x_req.type), !.status = "error",
                                !.error = "file_not_found", !.file_name = x_req.file_name])

\* server: stat the file and send the metadata message
SrvSendHeader ==
    /\ x_spc = "header"
    /\ x_req.type \in Served
    /\ x_req.file_name # ""
    /\ x_present
    /\ LET meta == [NullMsg EXCEPT !.type = MirrorType(x_req.type), !.status = "ok",
                                   !.file_name = x_req.file_name,
                                   !.file_size = Len(x_src), !.chunk_size = ChunkSize] IN
        /\ x_s2c' = x_s2c \o Serialize(meta)
        /\ x_sent' = Append(x_sent, meta)
    /\ x_size' = Len(x_src)
    /\ x_off' = 0
    /\ x_spc' = "stream"
    /\ UNCHANGED <<x_csock, x_src, x_kind, x_named, x_present, x_c2s, x_closed, x_schunks, x_req, x_cpc,
                   x_cchunks, x_meta, x_remaining, x_dest, x_exists>>
    /\ UNCHANGED <<idx_vars, conn_vars, cli_vars>>

\* server: one chunk of read_file_chunks, sent with sendall
SrvSendChunk ==
    /\ x_spc = "stream"
    /\ x_off < Len(x_src)
    /\ LET data == SubSeq(x_src, x_off + 1, Min(x_off + ChunkSize, Len(x_src))) IN
        /\ x_s2c' = x_s2c \o data
        /\ x_off' = x_off + Len(data)
    /\ UNCHANGED <<x_csock, x_src, x_kind, x_named, x_present, x_c2s, x_closed, x_spc, x_schunks, x_req,
                   x_size, x_cpc, x_cchunks, x_meta, x_remaining, x_dest, x_exists, x_sent>>
    /\ UNCHANGED <<idx_vars, conn_vars, cli_vars>>

\* server: f.read returns nothing more, the loop ends, conn.close()
SrvClose ==
    /\ x_spc = "stream"
    /\ x_off >= Len(x_src)
    /\ x_closed' = TRUE
    /\ x_spc' = "closed"
    /\ UNCHANGED <<x_csock, x_src, x_kind, x_named, x_present, x_c2s, x_s2c, x_schunks, x_req, x_size,
                   x_off, x_cpc, x_cchunks, x_meta, x_remaining, x_dest, x_exists, x_sent>>
    /\ UNCHANGED <<idx_vars, conn_vars, cli_vars>>

\* client: receive_message(sock), then the checks of the metadata; when they pass,
\* write_file_chunks opens the destination file; an exception leaves the with block, which
\* closes the socket
CliRecvHeader ==
    /\ x_cpc = "header"
    /\ IF x_s2c = <<>>
       THEN \* recv returns b"" once the server has closed: ProtocolError
            /\ x_closed
            /\ x_cpc' = "failed"
            /\ UNCHANGED <<x_s2c, x_cchunks, x_meta, x_remaining, x_dest, x_exists>>
       ELSE \E n \in 1..Min(RecvSize, Len(x_s2c)) :
            LET r == ReceiveStep(x_cchunks, SubSeq(x_s2c, 1, n))
                ok == r.complete /\ r.msg.type = ResponseType(x_kind) /\ r.msg.status = "ok"
            IN
            /\ x_s2c' = SubSeq(x_s2c, n + 1, Len(x_s2c))
            /\ x_cchunks' = r.chunks
            /\ x_meta' = r.msg
            /\ x_cpc' = IF ~r.complete THEN "header" ELSE IF ok THEN "body" ELSE "failed"
            /\ x_remaining' = IF r.complete /\ r.msg.file_size > 0 THEN r.msg.file_size ELSE None
            /\ x_exists' = (x_exists \/ ok)
            /\ x_dest' = IF ok THEN <<>> ELSE x_dest
    /\ x_csock' = IF x_cpc' = "failed" THEN "closed" ELSE x_csock
    /\ UNCHANGED <<x_src, x_kind, x_named, x_present, x_c2s, x_closed, x_spc, x_schunks, x_req,
                   x_size, x_off, x_sent>>
    /\ UNCHANGED <<idx_vars, conn_vars, cli_vars>>

\* the read size _chunk_stream asks for
ReadN == IF x_remaining = None \/ x_remaining = 0 THEN x_meta.chunk_size
         ELSE Min(x_meta.chunk_size, x_remaining)

\* client: one iteration of _chunk_stream, the chunk written by write_file_chunks; the
\* end of the stream leaves the with block, which closes the socket
CliRecvBody ==
    /\ x_cpc = "body"
    /\ IF x_s2c = <<>>
       THEN \* recv returns b"" once the server has closed: the loop ends
            /\ x_closed
            /\ x_cpc' = "done"
            /\ UNCHANGED <<x_s2c, x_remaining, x_dest>>
       ELSE \E n \in 1..Min(ReadN, Len(x_s2c)) :
            /\ x_s2c' = SubSeq(x_s2c, n + 1, Len(x_s2c))
            /\ x_dest' = x_dest \o SubSeq(x_s2c, 1, n)
            /\ x_remaining' = IF x_remaining = None THEN None ELSE x_remaining - n
            /\ x_cpc' = IF x_remaining # None /\ x_remaining - n <= 0 THEN "done" ELSE "body"
    /\ x_csock' = IF x_cpc' = "done" THEN "closed" ELSE x_csock
    /\ UNCHANGED <<x_src, x_kind, x_named, x_present, x_c2s, x_closed, x_spc, x_schunks, x_req,
                   x_size, x_off, x_cchunks, x_meta, x_exists, x_sent>>
    /\ UNCHANGED <<idx_vars, conn_vars, cli_vars>>

\* another process truncates the served file or appends to it while it is streamed
DiskChange ==
    /\ x_spc = "stream"
    /\ \E content \in {SubSeq(x_src, 1, n) : n \in 0..(Len(x_src) - 1)}
                      \cup {Append(x_src, Raw(b)) : b \in FileBytes} :
        /\ Len(content) <= MaxFileLen
        /\ x_src' = content
    /\ UNCHANGED <<x_csock, x_kind, x_named, x_present, x_c2s, x_s2c, x_closed, x_spc, x_schunks, x_req,
                   x_size, x_off, x_cpc, x_cchunks, x_meta, x_remaining, x_dest, x_exists, x_sent>>
    /\ UNCHANGED <<idx_vars, conn_vars, cli_vars>>

\* client: sock.connect raises inside _connect (refused, unreachable, timed out); the
\* exception propagates and nothing closes the socket _connect created
CliConnectFails ==
    /\ x_cpc = "connect"
    /\ x_cpc' = "failed"
    /\ x_csock' = "open"
    /\ UNCHANGED <<x_src, x_kind, x_named, x_present, x_c2s, x_s2c, x_closed, x_spc, x_schunks,
                   x_req, x_size, x_off, x_cchunks, x_meta, x_remaining, x_dest, x_exists, x_sent>>
    /\ UNCHANGED <<idx_vars, conn_vars, cli_vars>>

\* the interpreter finalizes the socket object the failed _connect left unreferenced
CliSocketCollected ==
    /\ x_cpc = "failed"
    /\ x_csock = "open"
    /\ x_csock' = "closed"
    /\ UNCHANGED <<x_src, x_kind, x_named, x_present, x_c2s, x_s2c, x_closed, x_spc, x_schunks,
                   x_req, x_size, x_off, x_cpc, x_cchunks, x_meta, x_remaining, x_dest, x_exists,
                   x_sent>>
    /\ UNCHANGED <<idx_vars, conn_vars, cli_vars>>

\* client: recv raises socket.timeout (settimeout in _connect) while nothing arrives; the
\* exception leaves the with block, which closes the socket
CliTimeout ==
    /\ x_cpc \in {"header", "body"}
    /\ x_s2c = <<>>
    /\ ~x_closed
    /\ x_cpc' = "failed"
    /\ x_csock' = "closed"
    /\ UNCHANGED <<x_src, x_kind, x_named, x_present, x_c2s, x_s2c, x_closed, x_spc, x_schunks,
                   x_req, x_size, x_off, x_cchunks, x_meta, x_remaining, x_dest, x_exists, x_sent>>
    /\ UNCHANGED <<idx_vars, conn_vars, cli_vars>>

\* server: an exception while the request is handled (the metadata cannot be sent, a chunk
\* cannot be read or sent); it is caught and the finally clause closes the connection
SrvTransferError ==
    /\ x_spc \in {"header", "stream"}
    /\ x_spc' = "closed"
    /\ x_closed' = TRUE
    /\ UNCHANGED <<x_src, x_kind, x_named, x_present, x_c2s, x_s2c, x_schunks, x_req, x_size,
                   x_off, x_cpc, x_cchunks, x_meta, x_remaining, x_dest, x_exists, x_sent, x_csock>>
    /\ UNCHANGED <<idx_vars, conn_vars, cli_vars>>

XferNext ==
    \/ CliSendRequest
    \/ SrvReceive
    \/ SrvUnexpectedType
    \/ SrvMissingFileName
    \/ SrvFileNotFound
    \/ SrvSendHeader
    \/ SrvSendChunk
    \/ SrvClose
    \/ CliRecvHeader
    \/ CliRecvBody

\* a transfer in which the connect, a receive or the handling of the request may fail
XferFailNext ==
    \/ XferNext
    \/ CliConnectFails
    \/ CliSocketCollected
    \/ CliTimeout
    \/ SrvTransferError

\* a transfer of a file that other processes may modify meanwhile
XferDiskNext ==
    \/ CliSendRequest
    \/ SrvReceive
    \/ SrvUnexpectedType
    \/ SrvMissingFileName
    \/ SrvFileNotFound
    \/ SrvSendHeader
    \/ SrvSendChunk
    \/ SrvClose
    \/ CliRecvHeader
    \/ CliRecvBody
    \/ DiskChange

\* ------------------------------------------------------------------------
\* A directory connection: IndexingServer.handle_client reading pipelined requests
\* ------------------------------------------------------------------------
ConnIdle ==
    /\ c_out = <<>>
    /\ c_cchunks = <<>>
    /\ c_got = <<>>
    /\ c_sent = 0
    /\ c_in = <<>>
    /\ c_pc = "idle"
    /\ c_chunks = <<>>
    /\ c_resps = <<>>
    /\ c_msg = NullMsg
    /\ c_cclosed = FALSE
    /\ c_accepted = 0
    /\ c_running = FALSE

ConnInit ==
    /\ c_out = <<>>
    /\ c_cchunks = <<>>
    /\ c_got = <<>>
    /\ c_sent = 0
    /\ c_in = <<>>
    /\ c_pc = "recv"
    /\ c_chunks = <<>>
    /\ c_resps = <<>>
    /\ c_msg = NullMsg
    /\ c_cclosed = FALSE
    /\ c_accepted = 1
    /\ c_running = TRUE

\* the i-th request of the client: registrations and searches alternate
Request(i) == [NullMsg EXCEPT !.type = IF i % 2 = 1 THEN "REGISTRY_REQUEST" ELSE "SEARCH_REQUEST",
                              !.id = i]

\* the response handle_client writes for a request
Response(m) == [NullMsg EXCEPT !.type = IF m.type = "SEARCH_REQUEST" THEN "SEARCH_RESPONSE"
                                                                   ELSE "REGISTRY_RESPONSE",
                               !.status = "ok", !.id = m.id]

\* client: send_message(sock, request), whether or not earlier responses were read
ConnClientSend ==
    /\ c_sent < NumRequests
    /\ c_in' = c_in \o Serialize(Request(c_sent + 1))
    /\ c_sent' = c_sent + 1
    /\ UNCHANGED <<c_pc, c_chunks, c_resps, c_out, c_cchunks, c_got, conn_err>>
    /\ UNCHANGED <<idx_vars, xfer_vars, cli_vars>>

\* server: one recv of receive_message; on a complete line the request is dispatched and
\* its response written, on a parse error the loop is left and the connection closed
ConnServerRecv ==
    /\ c_pc = "recv"
    /\ c_in # <<>>
    /\ \E n \in 1..Min(RecvSize, Len(c_in)) :
        LET r == ReceiveStep(c_chunks, SubSeq(c_in, 1, n)) IN
        /\ c_in' = SubSeq(c_in, n + 1, Len(c_in))
        /\ c_chunks' = r.chunks
        /\ c_pc' = IF r.complete /\ r.msg = ProtocolError THEN "closed" ELSE "recv"
        /\ c_resps' = IF r.complete /\ r.msg # ProtocolError THEN Append(c_resps, r.msg.id)
                      ELSE c_resps
        /\ c_out' = IF r.complete /\ r.msg # ProtocolError
                    THEN c_out \o Serialize(Response(r.msg)) ELSE c_out
    /\ UNCHANGED <<c_sent, c_cchunks, c_got, conn_err>>
    /\ UNCHANGED <<idx_vars, xfer_vars, cli_vars>>

\* client: one recv of receive_message(sock) for a response
ConnClientRecv ==
    /\ c_out # <<>>
    /\ \E n \in 1..Min(RecvSize, Len(c_out)) :
        LET r == ReceiveStep(c_cchunks, SubSeq(c_out, 1, n)) IN
        /\ c_out' = SubSeq(c_out, n + 1, Len(c_out))
        /\ c_cchunks' = r.chunks
        /\ c_got' = IF r.complete THEN Append(c_got, r.msg.id) ELSE c_got
    /\ UNCHANGED <<c_sent, c_in, c_pc, c_chunks, c_resps, conn_err>>
    /\ UNCHANGED <<idx_vars, xfer_vars, cli_vars>>

ConnNext ==
    \/ ConnClientSend
    \/ ConnServerRecv
    \/ ConnClientRecv

\* ------------------------------------------------------------------------
\* Peers arriving one after another: PeerClient.register_with_server against the directory
\* ------------------------------------------------------------------------
NoPayload == [status |-> "", registered_files |-> 0, replication_tasks |-> <<>>]

ClientIds == Range(ClientPeers)

CliIdle ==
    /\ shared_dir = [p \in ClientIds |-> {}]
    /\ replicated_dir = [p \in ClientIds |-> {}]
    /\ k_next = 1
    /\ k_peer = ""
    /\ k_pc = "off"
    /\ k_perform = [p \in ClientIds |-> FALSE]
    /\ k_todo = <<>>
    /\ k_sent = [p \in ClientIds |-> 0]
    /\ k_first = [p \in ClientIds |-> NoPayload]
    /\ k_ret = [p \in ClientIds |-> NoPayload]
    /\ k_attempts = [p \in ClientIds |-> <<>>]
    /\ k_rereg = [p \in ClientIds |-> "none"]
    /\ k_listening = {}
    /\ m_downloads = <<>>
    /\ m_pc = "idle"
    /\ m_i = 0
    /\ m_bytes = 0
    /\ m_duration = 0

CliInit ==
    /\ shared_dir \in [ClientIds -> SUBSET Files]
    /\ replicated_dir = [p \in ClientIds |-> {}]
    /\ k_next = 1
    /\ k_peer = ""
    /\ k_pc = "idle"
    /\ k_perform = [p \in ClientIds |-> FALSE]
    /\ k_todo = <<>>
    /\ k_sent = [p \in ClientIds |-> 0]
    /\ k_first = [p \in ClientIds |-> NoPayload]
    /\ k_ret = [p \in ClientIds |-> NoPayload]
    /\ k_attempts = [p \in ClientIds |-> <<>>]
    /\ k_rereg = [p \in ClientIds |-> "none"]
    /\ k_listening = {}
    /\ m_downloads = <<>>
    /\ m_pc = "idle"
    /\ m_i = 0
    /\ m_bytes = 0
    /\ m_duration = 0

RECURSIVE Listing(_, _)
\* the names of a listing that are in directory d
Listing(listed, d) ==
    IF listed = <<>> THEN <<>>
    ELSE IF Head(listed) \in d THEN <<Head(listed)>> \o Listing(Tail(listed), d)
         ELSE Listing(Tail(listed), d)

\* FileManager.list_shared_files(peer_id): the files of the shared directory only
ListSharedFiles(p) == Listing(AllFiles, shared_dir[p])

RECURSIVE RegisterFiles(_, _, _, _)
\* register_peer: `for fname, meta in files.items(): add_file(peer_id, fname, meta)`
RegisterFiles(fi, p, fl, m) ==
    IF fl = <<>> THEN fi
    ELSE RegisterFiles(AddFileOp(fi, p, Head(fl), m), p, Tail(fl), m)

RECURSIVE BuildTasksFrom(_, _, _, _, _)
\* build_replication_tasks_for_peer: the loop over the listed names nm, run with no other
\* thread in between
BuildTasksFrom(fi, reg, t, nm, ts) ==
    IF nm = <<>> THEN ts
    ELSE LET f == Head(nm)
             sources == GetPeersForFile(fi, reg, f)
         IN IF Len(sources) >= ReplicationFactor THEN BuildTasksFrom(fi, reg, t, Tail(nm), ts)
            ELSE IF t \in PeerIdsOf(sources) THEN BuildTasksFrom(fi, reg, t, Tail(nm), ts)
            ELSE IF sources = <<>> \/ sources[1].peer.host = "" \/ sources[1].peer.port = 0
                 THEN BuildTasksFrom(fi, reg, t, Tail(nm), ts)
            ELSE LET more == Append(ts, TaskFor(f, sources[1])) IN
                 IF Len(more) >= MaxTasks THEN more
                 ELSE BuildTasksFrom(fi, reg, t, Tail(nm), more)

BuildTasks(fi, reg, t) == BuildTasksFrom(fi, reg, t, ListFiles(fi), <<>>)

\* the directory after register_peer for the REGISTRY_REQUEST of peer p
RegisteredIndex(p) == RegisterFiles(file_index, p, ListSharedFiles(p), "m1")
RegisteredRegistry(p) ==
    AddPeerOp(peer_registry, p, [peer_id |-> p, host |-> FinalHost(""), port |-> FinalPort(PeerPort(p))])

\* the payload of the REGISTRY_RESPONSE to that request
RegistryPayload(p) ==
    [status |-> "ok", registered_files |-> Len(ListSharedFiles(p)),
     replication_tasks |-> BuildTasks(RegisteredIndex(p), RegisteredRegistry(p), p)]

\* register_with_server returns (or raises): the next peer can arrive
Return(p, payload) ==
    /\ k_ret' = [k_ret EXCEPT ![p] = payload]
    /\ k_pc' = "idle"
    /\ k_peer' = ""
    /\ k_todo' = <<>>
    /\ k_next' = k_next + 1

\* register_with_server(peer_ip=None, peer_port, perform_replication): lines 98-122, the
\* request and its response
ClientRegister ==
    /\ k_pc = "idle"
    /\ k_next <= Len(ClientPeers)
    /\ LET p == ClientPeers[k_next]
           payload == RegistryPayload(p)
       IN \E perform \in BOOLEAN :
            /\ file_index' = RegisteredIndex(p)
            /\ peer_registry' = RegisteredRegistry(p)
            /\ k_perform' = [k_perform EXCEPT ![p] = perform]
            /\ k_sent' = [k_sent EXCEPT ![p] = 1]
            /\ k_first' = [k_first EXCEPT ![p] = payload]
            /\ IF perform /\ payload.replication_tasks # <<>>
               THEN /\ k_pc' = "tasks"
                    /\ k_peer' = p
                    /\ k_todo' = payload.replication_tasks
                    /\ UNCHANGED <<k_ret, k_next>>
               ELSE Return(p, payload)
    /\ UNCHANGED <<shared_dir, replicated_dir, k_attempts, k_rereg, k_listening, met_vars>>
    /\ UNCHANGED <<idx_rest, xfer_vars, conn_vars>>

\* the tasks left after one iteration of `for t in tasks`, whether replicate_file raised
\* (done = FALSE) or not
RemainingAfterAbort(todo, done) == IF done THEN Tail(todo) ELSE <<>>

RemainingAfter(todo, done) == Tail(todo)

\* one iteration of `for t in tasks`: replicate_file into the replicated directory; the
\* source's PeerServer, if it is listening, serves the file from its shared directory; any
\* failure is caught
ClientTask ==
    /\ k_pc = "tasks"
    /\ k_todo # <<>>
    /\ LET t == Head(k_todo)
           p == k_peer
       IN IF t.file_name = "" \/ t.source.host = "" \/ t.source.port = 0
          THEN /\ k_todo' = Tail(k_todo)
               /\ UNCHANGED <<replicated_dir, k_attempts>>
          ELSE \E transfer \in {"ok", "error"} :
                LET done == /\ transfer = "ok"
                            /\ t.source.peer_id \in k_listening
                            /\ t.file_name \in shared_dir[t.source.peer_id]
                IN
                /\ replicated_dir' = IF done
                                     THEN [replicated_dir EXCEPT ![p] = @ \cup {t.file_name}]
                                     ELSE replicated_dir
                /\ k_attempts' = [k_attempts EXCEPT ![p] =
                                    Append(@, [file_name |-> t.file_name, ok |-> done])]
                /\ k_todo' = RemainingAfter(k_todo, done)
    /\ UNCHANGED <<shared_dir, k_next, k_peer, k_pc, k_perform, k_sent, k_first, k_ret, k_rereg,
                   k_listening, met_vars>>
    /\ UNCHANGED <<idx_vars, xfer_vars, conn_vars>>

\* a re-registration that performs the tasks of its response
ReRegisterPerformsAlways == TRUE

\* the perform_replication argument of the re-registration
ReRegisterPerforms == FALSE

\* after the loop: register_with_server(..., perform_replication=False), whose payload is
\* returned; if it raises, the first payload is returned
ClientReRegister ==
    /\ k_pc = "tasks"
    /\ k_todo = <<>>
    /\ LET p == k_peer IN
       \E outcome \in {"ok", "connect_error", "receive_error"} :
            /\ k_rereg' = [k_rereg EXCEPT ![p] = outcome]
            /\ IF outcome = "connect_error"
               THEN UNCHANGED <<file_index, peer_registry, k_sent>>
               ELSE /\ file_index' = RegisteredIndex(p)
                    /\ peer_registry' = RegisteredRegistry(p)
                    /\ k_sent' = [k_sent EXCEPT ![p] = @ + 1]
            /\ IF outcome = "ok" /\ ReRegisterPerforms /\ RegistryPayload(p).replication_tasks # <<>>
               THEN /\ k_todo' = RegistryPayload(p).replication_tasks
                    /\ UNCHANGED <<k_pc, k_peer, k_ret, k_next>>
               ELSE Return(p, IF outcome = "ok" THEN RegistryPayload(p) ELSE k_first[p])
    /\ UNCHANGED <<shared_dir, replicated_dir, k_perform, k_first, k_attempts, k_listening, met_vars>>
    /\ UNCHANGED <<idx_rest, xfer_vars, conn_vars>>

\* the process of peer p runs: it arrived earlier, or it is the one arriving
Started(p) == \E i \in 1..Len(ClientPeers) : ClientPeers[i] = p /\ i <= k_next

\* the server thread Peer.start launched before registering reaches sock.listen
PeerServerListen(p) ==
    /\ Started(p)
    /\ p \notin k_listening
    /\ k_listening' = k_listening \cup {p}
    /\ UNCHANGED <<shared_dir, replicated_dir, k_next, k_peer, k_pc, k_perform, k_todo, k_sent,
                   k_first, k_ret, k_attempts, k_rereg, met_vars>>
    /\ UNCHANGED <<idx_vars, xfer_vars, conn_vars>>

ClientNext ==
    \/ ClientRegister
    \/ ClientTask
    \/ ClientReRegister
    \/ \E p \in ClientIds : PeerServerListen(p)

\* ------------------------------------------------------------------------
\* A directory connection that can go wrong: frames that do not parse, objects without a
\* type, a client that closes, a recv that fails; IndexingServer.start accepts the next
\* connection when one has ended
\* ------------------------------------------------------------------------
MaxConns == 2

\* the peer at the other end of the connection: its messages carry its peer_id
DirPeer == ClientPeers[((c_accepted - 1) % Len(ClientPeers)) + 1]

DirRequest(type) == [NullMsg EXCEPT !.type = type, !.file_name = WantedFile]

\* what a client may write: requests, a message of a type the directory does not know, a
\* JSON object without a type, a line cut inside its JSON text, a line that is not JSON
DirFrames ==
    {Serialize(DirRequest("REGISTRY_REQUEST")), Serialize(DirRequest("SEARCH_REQUEST")),
     Serialize(DirRequest("PING")), Serialize(DirRequest("")),
     <<[k |-> "open", v |-> DirRequest("REGISTRY_REQUEST")], NL>>, <<Raw(0), NL>>}

\* client: sendall of one frame
DirClientSend ==
    /\ ~c_cclosed
    /\ c_sent < NumRequests
    /\ \E frame \in DirFrames : c_in' = c_in \o frame
    /\ c_sent' = c_sent + 1
    /\ UNCHANGED <<c_pc, c_chunks, c_resps, c_out, c_cchunks, c_got, conn_err>>
    /\ UNCHANGED <<idx_vars, xfer_vars, cli_vars>>

\* client: the socket is closed
DirClientClose ==
    /\ c_pc # "idle"
    /\ ~c_cclosed
    /\ c_cclosed' = TRUE
    /\ UNCHANGED <<c_sent, c_in, c_pc, c_chunks, c_resps, c_out, c_cchunks, c_got, c_msg,
                   c_accepted, c_running>>
    /\ UNCHANGED <<idx_vars, xfer_vars, cli_vars>>

\* server: one recv of receive_message. A complete line that parses is returned to
\* handle_client; one that does not parse raises ProtocolError, and so does recv returning
\* b"" once the client has closed and every byte was read
DirRecv ==
    /\ c_pc = "recv"
    /\ IF c_in = <<>>
       THEN /\ c_cclosed
            /\ c_pc' = "failed"
            /\ UNCHANGED <<c_in, c_chunks, c_msg>>
       ELSE \E n \in 1..Min(RecvSize, Len(c_in)) :
            LET r == ReceiveStep(c_chunks, SubSeq(c_in, 1, n)) IN
            /\ c_in' = SubSeq(c_in, n + 1, Len(c_in))
            /\ c_chunks' = r.chunks
            /\ c_msg' = IF r.complete /\ r.msg # ProtocolError THEN r.msg ELSE c_msg
            /\ c_pc' = IF ~r.complete THEN "recv"
                       ELSE IF r.msg = ProtocolError THEN "failed" ELSE "dispatch"
    /\ UNCHANGED <<c_sent, c_resps, c_out, c_cchunks, c_got, c_cclosed, c_accepted, c_running>>
    /\ UNCHANGED <<idx_vars, xfer_vars, cli_vars>>

\* server: recv raises (the connection was reset)
DirRecvFails ==
    /\ c_pc = "recv"
    /\ c_pc' = "failed"
    /\ UNCHANGED <<c_sent, c_in, c_chunks, c_resps, c_out, c_cchunks, c_got, conn_err>>
    /\ UNCHANGED <<idx_vars, xfer_vars, cli_vars>>

\* the except clause sweeping the peer of the connection out of the index
DirReadErrorSweeps ==
    /\ c_pc = "failed"
    /\ c_pc' = "closed"
    /\ file_index' = SweepOp(file_index, DirPeer)
    /\ peer_registry' = PopPeerOp(peer_registry, DirPeer)
    /\ UNCHANGED <<c_sent, c_in, c_chunks, c_resps, c_out, c_cchunks, c_got, conn_err>>
    /\ UNCHANGED <<idx_rest, xfer_vars, cli_vars>>
\* server: the except clause around receive_message logs and breaks; finally conn.close()
DirReadError ==
    /\ c_pc = "failed"
    /\ c_pc' = "closed"
    /\ UNCHANGED <<c_sent, c_in, c_chunks, c_resps, c_out, c_cchunks, c_got, conn_err>>
    /\ UNCHANGED <<idx_vars, xfer_vars, cli_vars>>

\* the response of handle_client to the message it was given
DirResponse(m) ==
    IF m.type = "REGISTRY_REQUEST"
    THEN [NullMsg EXCEPT !.type = "REGISTRY_RESPONSE", !.status = "ok"]
    ELSE IF m.type = "SEARCH_REQUEST"
    THEN [NullMsg EXCEPT !.type = "SEARCH_RESPONSE", !.status = "ok", !.file_name = m.file_name]
    ELSE [NullMsg EXCEPT !.type = "REGISTRY_RESPONSE", !.status = "error",
                         !.error = "unknown message type"]

\* server: the message is dispatched on its type (a registration enters the index) and the
\* response is sent; a send that fails, the client being gone, ends the loop
DirDispatch ==
    /\ c_pc = "dispatch"
    /\ IF c_msg.type = "REGISTRY_REQUEST"
       THEN /\ peer_registry' = AddPeerOp(peer_registry, DirPeer,
                                          [peer_id |-> DirPeer, host |-> FinalHost(""),
                                           port |-> FinalPort(PeerPort(DirPeer))])
            /\ file_index' = RegisterFiles(file_index, DirPeer, <<c_msg.file_name>>, "m1")
       ELSE UNCHANGED <<file_index, peer_registry>>
    /\ \E sent \in (IF c_cclosed THEN BOOLEAN ELSE {TRUE}) :
        /\ c_out' = IF sent THEN c_out \o Serialize(DirResponse(c_msg)) ELSE c_out
        /\ c_resps' = IF sent THEN Append(c_resps, c_msg.id) ELSE c_resps
        /\ c_pc' = IF sent THEN "recv" ELSE "closed"
    /\ UNCHANGED <<c_sent, c_in, c_chunks, c_cchunks, c_got, conn_err>>
    /\ UNCHANGED <<idx_rest, xfer_vars, cli_vars>>

\* the accept loop: a worker is started for the next connection
DirAccept ==
    /\ c_running
    /\ c_pc = "closed"
    /\ c_accepted < MaxConns
    /\ c_accepted' = c_accepted + 1
    /\ c_pc' = "recv"
    /\ c_sent' = 0
    /\ c_in' = <<>>
    /\ c_chunks' = <<>>
    /\ c_resps' = <<>>
    /\ c_out' = <<>>
    /\ c_cchunks' = <<>>
    /\ c_got' = <<>>
    /\ c_msg' = NullMsg
    /\ c_cclosed' = FALSE
    /\ UNCHANGED c_running
    /\ UNCHANGED <<idx_vars, xfer_vars, cli_vars>>

DirNext ==
    \/ DirClientSend
    \/ DirClientClose
    \/ DirRecv
    \/ DirRecvFails
    \/ DirReadError
    \/ DirDispatch
    \/ DirAccept

\* ------------------------------------------------------------------------
\* MetricsCollector: workers recording downloads while get_statistics runs
\* ------------------------------------------------------------------------
MaxRecords == 3

\* the byte counts and durations a record can hold
Amounts == {1, 2}

peer_rest == <<shared_dir, replicated_dir, k_next, k_peer, k_pc, k_perform, k_todo, k_sent, k_first,
               k_ret, k_attempts, k_rereg, k_listening>>

\* record_download: one append to self.downloads
RecordDownload ==
    /\ Len(m_downloads) < MaxRecords
    /\ \E b \in Amounts, d \in Amounts :
        m_downloads' = Append(m_downloads, [bytes |-> b, duration |-> d])
    /\ UNCHANGED <<m_pc, m_i, m_bytes, m_duration>>
    /\ UNCHANGED <<idx_vars, xfer_vars, conn_vars, peer_rest>>

\* get_statistics is called
GetStatistics ==
    /\ m_pc \in {"idle", "done"}
    /\ m_pc' = "bytes"
    /\ m_i' = 0
    /\ m_bytes' = 0
    /\ m_duration' = 0
    /\ UNCHANGED m_downloads
    /\ UNCHANGED <<idx_vars, xfer_vars, conn_vars, peer_rest>>

\* sum(d["bytes"] for d in self.downloads): the next record of the list as it is now, or
\* the end of the iteration
SumBytes ==
    /\ m_pc = "bytes"
    /\ IF m_i < Len(m_downloads)
       THEN /\ m_bytes' = m_bytes + m_downloads[m_i + 1].bytes
            /\ m_i' = m_i + 1
            /\ UNCHANGED m_pc
       ELSE /\ m_pc' = "duration"
            /\ m_i' = 0
            /\ UNCHANGED m_bytes
    /\ UNCHANGED <<m_downloads, m_duration>>
    /\ UNCHANGED <<idx_vars, xfer_vars, conn_vars, peer_rest>>

\* sum(d["duration"] for d in self.downloads), a second iteration of the list; after it
\* the throughput is computed and the statistics are returned
SumDuration ==
    /\ m_pc = "duration"
    /\ IF m_i < Len(m_downloads)
       THEN /\ m_duration' = m_duration + m_downloads[m_i + 1].duration
            /\ m_i' = m_i + 1
            /\ UNCHANGED m_pc
       ELSE /\ m_pc' = "done"
            /\ UNCHANGED <<m_i, m_duration>>
    /\ UNCHANGED <<m_downloads, m_bytes>>
    /\ UNCHANGED <<idx_vars, xfer_vars, conn_vars, peer_rest>>

MetricsNext ==
    \/ RecordDownload
    \/ GetStatistics
    \/ SumBytes
    \/ SumDuration

\* ------------------------------------------------------------------------
\* The specifications
\* ------------------------------------------------------------------------
Init == IdxInit /\ track = "none" /\ XferIdle /\ ConnIdle /\ CliIdle
InitOrder == IdxInit /\ track = "order" /\ XferIdle /\ ConnIdle /\ CliIdle
InitEvict == IdxInit /\ track = "evict" /\ XferIdle /\ ConnIdle /\ CliIdle
InitLin == IdxInit /\ track = "lin" /\ XferIdle /\ ConnIdle /\ CliIdle
InitBulk == IdxInit /\ track = "bulk" /\ XferIdle /\ ConnIdle /\ CliIdle
InitXfer == IdxInit /\ track = "none" /\ XferInit /\ ConnIdle /\ CliIdle
InitConn == IdxInit /\ track = "none" /\ XferIdle /\ ConnInit /\ CliIdle
InitClient == IdxInit /\ track = "none" /\ XferIdle /\ ConnIdle /\ CliInit

\* registrations arriving one after another on one connection
NextBulk ==
    \/ RegistryAddPeer("w1")
    \/ RegistryAddFile("w1")
    \/ BuildListFiles("w1")
    \/ BuildCheckFactor("w1")
    \/ BuildCheckTarget("w1")
    \/ BuildPickSource("w1")

Next ==
    \/ \E w \in Workers : RegistryMissingPeerId(w)
    \/ \E w \in Workers : RegistryAddPeer(w)
    \/ \E w \in Workers : RegistryAddFile(w)
    \/ \E w \in Workers : BuildListFiles(w)
    \/ \E w \in Workers : BuildCheckFactor(w)
    \/ \E w \in Workers : BuildCheckTarget(w)
    \/ \E w \in Workers : BuildPickSource(w)
    \/ \E w \in Workers : Search(w)
    \/ \E w \in Workers : SearchMissingFileName(w)
    \/ \E w \in Workers : UnknownType(w)
    \/ ApiAddPeer
    \/ ApiAddFile
    \/ ApiRemoveFile
    \/ ApiRemovePeerPop
    \/ ApiRemovePeerSweep

Spec == Init /\ [][Next]_vars
SpecOrder == InitOrder /\ [][Next]_vars
SpecEvict == InitEvict /\ [][Next]_vars
SpecLin == InitLin /\ [][Next]_vars
SpecBulk == InitBulk /\ [][NextBulk]_vars
SpecXfer == InitXfer /\ [][XferNext]_vars
SpecXferDisk == InitXfer /\ [][XferDiskNext]_vars
SpecXferFail == InitXfer /\ [][XferFailNext]_vars
SpecDir == InitConn /\ [][DirNext]_vars
SpecMetrics == Init /\ [][MetricsNext]_vars
SpecConn == InitConn /\ [][ConnNext]_vars
SpecClient == InitClient /\ [][ClientNext]_vars

\* ------------------------------------------------------------------------
\* Properties of the directory
\* ------------------------------------------------------------------------
SearchOk(w) == response[w].type = "SEARCH_RESPONSE" /\ response[w].status = "ok"
RegistryOk(w) == response[w].type = "REGISTRY_RESPONSE" /\ response[w].status = "ok"

\* C2: registrations and searches are linearizable. Necessary condition: once a search
\* of a connection has reported a serving that only a registration still in progress
\* can have added, a later search of that connection, for another file of that
\* registration, reports the registration's peer too (no removal in between).
C2_Linearizable == \A w \in Workers : ~lin_gap[w]

\* C3: remove_peer is atomic: no lookup of a serving list (by a search or by the task
\* builder) runs between remove_peer's pop of the registry entry and its sweep, where it
\* would list the peer with an empty record.
C3_RemovePeerAtomic == \A w \in Workers : ~torn[w]

\* a remove_peer is under way (entry popped, servings still there) next to a search
\* result that reported the same peer with its record
C3_Witness ==
    /\ api_pc = "sweep"
    /\ Serves(file_index, api_peer)
    /\ \E w \in Workers : /\ SearchOk(w)
                          /\ \E i \in 1..Len(response[w].results) :
                                /\ response[w].results[i].peer_id = api_peer
                                /\ response[w].results[i].peer # EmptyRecord

\* C4: every peer_id in a serving list is a key of the peer registry (in every state
\* another thread can observe, i.e. when the lock is free).
C4_ServingsRegistered ==
    LockFree => \A i \in 1..Len(file_index) : PeerIdsOf(file_index[i].peers) \subseteq DOMAIN peer_registry

\* C5: no entry of a peers_for_file result has an empty peer record: servings of
\* unregistered peers are omitted.
C5_NoBrokenReference ==
    \A w \in Workers : SearchOk(w) =>
        \A i \in 1..Len(response[w].results) : response[w].results[i].peer # EmptyRecord

\* C6: once remove_peer(p) has returned, and until an add_peer(p) or a registration of p
\* starts, every peers_for_file result omits p and p is not in the registry.
C6_RemovedStaysRemoved ==
    LockFree => \A p \in removed :
        /\ p \notin DOMAIN peer_registry
        /\ \A f \in Files : p \notin PeerIdsOf(GetPeersForFile(file_index, peer_registry, f))

\* C8: a search for f reports every peer whose registration listing f completed before
\* the search, with no removal of the peer or of (peer, f) since that registration began.
C8_SearchSeesCompleted ==
    \A w \in Workers : SearchOk(w) => must_see[w] \subseteq PeerIdsOf(response[w].results)

\* a search answered after two peers' registrations of its file completed
C8_Witness == \E w \in Workers : SearchOk(w) /\ must_see[w] = Peers

\* C9: a serving list holds a peer_id at most once.
C9_UniqueServing ==
    \A i \in 1..Len(file_index) :
        \A j, k \in 1..Len(file_index[i].peers) :
            j # k => file_index[i].peers[j].peer_id # file_index[i].peers[k].peer_id

\* two connections completed a registration of the same peer listing the same file
C9_Witness ==
    \E v, w \in Workers :
        /\ v # w /\ RegistryOk(v) /\ RegistryOk(w)
        /\ message[v].peer_id = message[w].peer_id
        /\ "a.txt" \in Range(message[v].files) \cap Range(message[w].files)
        /\ message[v].peer_id \in PeerIdsOf(Get(file_index, "a.txt"))

\* C10: a file name is a key of the index iff its serving list is non-empty: no key
\* maps to an empty list, and list_files() names only files with servings.
C10_NoEmptyEntry ==
    /\ \A i \in 1..Len(file_index) : file_index[i].peers # <<>>
    /\ \A i \in 1..Len(ListFiles(file_index)) : Get(file_index, ListFiles(file_index)[i]) # <<>>

\* a registration added servings and removals took the last one away: the index is empty
C10_Witness ==
    /\ file_index = <<>>
    /\ api_pc = "idle"
    /\ \E w \in Workers : RegistryOk(w) /\ response[w].registered_files > 0

\* the step is the add_file of worker w's registration
IsRegistryAddFile(w) == pc[w] = "add_file" /\ registered'[w] = registered[w] + 1

\* C11: add_file(p, f, m') for a (p, f) that is already a serving leaves the index
\* unchanged: the serving list does not grow and the stored meta is kept. Also, for any
\* single operation of the index: a serving that is there before and after has kept its meta.
C11_AddFileIdempotent ==
    [][/\ \A w \in Workers :
            LET f == message[w].files[registered[w] + 1] IN
            (IsRegistryAddFile(w) /\ message[w].peer_id \in PeerIdsOf(Get(file_index, f)))
                => file_index' = file_index
       /\ \A f \in Files :
            \A i \in 1..Len(Get(file_index, f)), j \in 1..Len(Get(file_index', f)) :
                Get(file_index, f)[i].peer_id = Get(file_index', f)[j].peer_id
                    => Get(file_index, f)[i].meta = Get(file_index', f)[j].meta
      ]_vars

\* two operations ran, one of them worker w's registration, whose add_file of a.txt found
\* the serving already there with another meta
C11_Witness ==
    /\ ops = 2
    /\ \E w \in Workers :
          /\ message[w].type = "REGISTRY_REQUEST" /\ registered[w] >= 1
          /\ \E i \in 1..Len(Get(file_index, "a.txt")) :
                /\ Get(file_index, "a.txt")[i].peer_id = message[w].peer_id
                /\ Get(file_index, "a.txt")[i].meta # MetaOf(w)

\* the servings of the index
Servings(fi) == UNION {{<<fi[i].name, e>> : e \in Range(fi[i].peers)} : i \in 1..Len(fi)}

\* the step is a step of register_peer on worker w's connection
IsRegistryStep(w) == pc'[w] # pc[w] \/ registered'[w] # registered[w] \/ scan'[w] # scan[w]

\* C12: the add_peer of a registration of p puts the new record in the registry, changes
\* no other record and no serving list; and no step of a registration takes a serving
\* away, so a re-registration with a smaller file set only augments the index.
C12_ReRegistrationAugments ==
    [][\A w \in Workers : IsRegistryStep(w) =>
          /\ Servings(file_index) \subseteq Servings(file_index')
          /\ pc[w] = "recv" =>
                LET p == message'[w].peer_id
                    d == Declared(w, p)
                IN /\ file_index' = file_index
                   /\ DOMAIN peer_registry' = DOMAIN peer_registry \cup {p}
                   /\ peer_registry'[p].host = FinalHost(d.host)
                   /\ peer_registry'[p].port = FinalPort(d.port)
                   /\ \A q \in DOMAIN peer_registry \ {p} : peer_registry'[q] = peer_registry[q]
      ]_vars

\* connection w1 registered a peer with a.txt and b.bin, then registered it again with
\* no files: the second registration is answered and both servings are still there
C12_Witness ==
    /\ ops = 2
    /\ RegistryOk("w1") /\ response["w1"].registered_files = 0
    /\ \A f \in Files : \E i \in 1..Len(Get(file_index, f)) :
          Get(file_index, f)[i] = [peer_id |-> response["w1"].peer_id, meta |-> "m1"]

\* the step appends a task to the list worker w's build_replication_tasks_for_peer returns
AppendsTask(w) ==
    /\ pc[w] = "pick_source"
    /\ \/ pc'[w] = "recv" /\ Len(response'[w].replication_tasks) = Len(tasks[w]) + 1
       \/ pc'[w] # "recv" /\ Len(tasks'[w]) = Len(tasks[w]) + 1

\* C13: when a task for file f is appended for target t, t is not in servings(f).
C13_TaskDisjoint ==
    [][\A w \in Workers : AppendsTask(w) =>
          message[w].peer_id \notin PeerIdsOf(Get(file_index, names[w][scan[w]]))]_vars

\* C14: when a task for file f is appended, f has fewer than replication_factor servings.
C14_TaskOnlyUnderReplicated ==
    [][\A w \in Workers : AppendsTask(w) =>
          Len(Get(file_index, names[w][scan[w]])) < ReplicationFactor]_vars

\* worker w holds the answer to a registration whose files payload was empty
EmptyRegistrationAnswered(w) ==
    RegistryOk(w) /\ message[w].type = "REGISTRY_REQUEST" /\ message[w].files = <<>>

MissingPeerId(w) == message[w].type = "REGISTRY_REQUEST" /\ message[w].peer_id = ""

\* the step records a request handled by worker w
Handles(w) == message'[w] # message[w] \/ response'[w] # response[w]

\* C26: a REGISTRY_REQUEST whose peer_id is absent or empty is answered with status=error,
\* error="missing peer_id", and handling it leaves the peer registry and every serving
\* list as they were, whatever files and peer endpoint its payload carries.
C26_MissingPeerIdRejected ==
    [][\A w \in Workers : (MissingPeerId(w)' /\ Handles(w)) =>
            /\ response'[w].type = "REGISTRY_RESPONSE"
            /\ response'[w].status = "error"
            /\ response'[w].error = "missing peer_id"
            /\ peer_registry' = peer_registry
            /\ file_index' = file_index
      ]_vars

\* such a request, carrying files, rejected while another peer is registered
C26_Witness ==
    \E w \in Workers :
        /\ MissingPeerId(w)
        /\ message[w].files # <<>>
        /\ response[w].error = "missing peer_id"
        /\ file_index # <<>>

\* the step is the add_peer of a registration on worker w's connection
IsRegistryAddPeer(w) == pc[w] = "recv" /\ pc'[w] \in {"add_file", "list_files"}

\* the step is a search answered on worker w's connection
IsSearch(w) == message'[w].type = "SEARCH_REQUEST" /\ response'[w].status = "ok" /\ Handles(w)

\* a search returns, for every registered peer in its results, the record of the registry
SearchReturnsRecords(w) ==
    \A i \in 1..Len(response'[w].results) :
        LET e == response'[w].results[i] IN
        e.peer_id \in DOMAIN peer_registry => e.peer = peer_registry[e.peer_id]

\* C27 as stated: the record a registration stores has the port of payload.peer whenever
\* one is present and the socket's remote port otherwise, and the host of payload.peer
\* when present and the socket's remote address otherwise; searches return that record.
C27_DeclaredEndpointWins ==
    [][\A w \in Workers :
          /\ IsRegistryAddPeer(w) =>
                LET p == message'[w].peer_id
                    d == Declared(w, p)
                IN /\ peer_registry'[p].port = (IF d.port # NoPort THEN d.port ELSE ClientPort)
                   /\ peer_registry'[p].host = (IF d.host # "" THEN d.host ELSE ClientHost)
          /\ IsSearch(w) => SearchReturnsRecords(w)
      ]_vars

\* C27, amended: the stored port is that of payload.peer when one is present and int()
\* accepts it, and the socket's remote port when it is absent or int() rejects it; the
\* stored host is that of payload.peer when present and non-empty and the socket's
\* remote address otherwise; searches return that record.
C27_ConvertibleEndpointWins ==
    [][\A w \in Workers :
          /\ IsRegistryAddPeer(w) =>
                LET p == message'[w].peer_id
                    d == Declared(w, p)
                IN /\ d.port \notin {NoPort, BadPort} => peer_registry'[p].port = d.port
                   /\ d.port \in {NoPort, BadPort} => peer_registry'[p].port = ClientPort
                   /\ d.host # "" => peer_registry'[p].host = d.host
                   /\ d.host = "" => peer_registry'[p].host = ClientHost
          /\ IsSearch(w) => SearchReturnsRecords(w)
      ]_vars

\* one search returned a peer with the host and port it declared, and a peer that
\* declared a host and a port that is not a number
C27_Witness ==
    \E w \in Workers :
        /\ SearchOk(w)
        /\ \E i, j \in 1..Len(response[w].results) :
            /\ response[w].results[i].peer_id = "peer1"
            /\ response[w].results[i].peer.host = "10.0.0.1"
            /\ response[w].results[i].peer.port = 7100
            /\ response[w].results[j].peer_id = "peer2"
            /\ response[w].results[j].peer.host = "10.0.0.2"
            /\ response[w].results[j].peer.port = ClientPort

\* C28: in a REGISTRY_RESPONSE with status=ok the replication_tasks field is present iff
\* the task list built for the peer is non-empty, and replication_required is true iff
\* that list is non-empty.
C28_TasksFieldIffNonEmpty ==
    \A w \in Workers : RegistryOk(w) =>
        /\ response[w].has_tasks <=> response[w].replication_tasks # <<>>
        /\ response[w].replication_required <=> response[w].replication_tasks # <<>>

\* one registration answered with tasks and one answered without
C28_Witness ==
    \E w, v \in Workers :
        /\ RegistryOk(w) /\ response[w].has_tasks /\ response[w].replication_required
        /\ response[w].replication_tasks # <<>>
        /\ RegistryOk(v) /\ ~response[v].has_tasks /\ ~response[v].replication_required

\* the entries of a list of servings or of results whose peer is registered
OfRegistered(entries) == SelectSeq(entries, LAMBDA e : e.peer_id \in DOMAIN peer_registry)

\* C29: a SEARCH_REQUEST with a non-empty file_name is answered with status=ok and with
\* the result of peers_for_file for exactly that name: one entry, in order, for each
\* serving of that name by a registered peer, carrying the peer's record and the
\* serving's meta, and no entry for a peer that does not serve that name; a name with
\* no servings gives the empty list; the step changes neither dictionary of the index.
C29_SearchExactMatch ==
    [][\A w \in Workers :
          (message'[w].type = "SEARCH_REQUEST" /\ message'[w].file_name # "" /\ Handles(w)) =>
            LET f == message'[w].file_name
                res == response'[w].results
                at == {i \in 1..Len(file_index) : file_index[i].name = f}
                servs == IF at = {} THEN <<>> ELSE file_index[CHOOSE i \in at : TRUE].peers
                regs == OfRegistered(servs)
            IN /\ response'[w].type = "SEARCH_RESPONSE"
               /\ response'[w].status = "ok"
               /\ OfRegistered(res) =
                    [i \in 1..Len(regs) |-> [peer_id |-> regs[i].peer_id,
                                             peer |-> peer_registry[regs[i].peer_id],
                                             meta |-> regs[i].meta]]
               /\ \A i \in 1..Len(res) : res[i].peer_id \in PeerIdsOf(servs)
               /\ (servs = <<>> => res = <<>>)
               /\ file_index' = file_index
               /\ peer_registry' = peer_registry
      ]_vars

\* with a.txt served by two peers and b.bin by one, the search for b.bin returned the
\* one peer
C29_Witness ==
    \E w \in Workers :
        /\ SearchOk(w)
        /\ message[w].file_name = "b.bin"
        /\ Len(response[w].results) = 1
        /\ Len(Get(file_index, "a.txt")) = 2
        /\ Len(Get(file_index, "b.bin")) = 1

\* C30: a message at the directory whose type is neither REGISTRY_REQUEST nor
\* SEARCH_REQUEST is answered with a REGISTRY_RESPONSE carrying status=error and
\* error="unknown message type: <t>"; handling it leaves the index unchanged and the
\* worker goes back to receiving on the same connection.
C30_UnknownTypeAnswered ==
    [][\A w \in Workers :
          (message'[w].type \notin {"REGISTRY_REQUEST", "SEARCH_REQUEST", "NONE"} /\ Handles(w)) =>
            /\ message'[w].type = "HEARTBEAT"
            /\ response'[w].type = "REGISTRY_RESPONSE"
            /\ response'[w].status = "error"
            /\ response'[w].error = "unknown message type: HEARTBEAT"
            /\ file_index' = file_index
            /\ peer_registry' = peer_registry
            /\ pc'[w] = "recv"
      ]_vars

\* a HEARTBEAT answered on a connection that had registered a peer before, the worker
\* receiving again and the index as the registration left it
C30_Witness ==
    \E w \in Workers :
        /\ message[w].type = "HEARTBEAT"
        /\ response[w].error = "unknown message type: HEARTBEAT"
        /\ pc[w] = "recv"
        /\ ops < MaxOps
        /\ file_index # <<>>

\* the task the step appends
NewTask(w) ==
    IF pc'[w] = "recv" THEN response'[w].replication_tasks[Len(response'[w].replication_tasks)]
    ELSE tasks'[w][Len(tasks'[w])]

\* C38: no replication task names the target peer as its own source: when a task is
\* appended to the list built for target t, its source.peer_id differs from t, whatever
\* registrations and removals run between the three reads of the serving list.
C38_SourceIsNotTarget ==
    [][\A w \in Workers : AppendsTask(w) =>
          NewTask(w).source.peer_id # message[w].peer_id]_vars

\* C37: for every entry of the peer registry, the peer_id stored inside the record is the
\* key it is stored under, also when payload.peer carries another peer_id.
C37_RecordPeerIdIsKey ==
    \A q \in DOMAIN peer_registry : peer_registry[q].peer_id = q

\* C35: every REGISTRY_RESPONSE carries at most max_tasks = 5 replication tasks, however
\* many files of the index are under-replicated, and no two of its tasks name the same
\* file.
C35_AtMostMaxTasks ==
    \A w \in Workers : RegistryOk(w) =>
        LET ts == response[w].replication_tasks IN
        /\ Len(ts) <= 5
        /\ \A i, j \in 1..Len(ts) : ts[i].file_name = ts[j].file_name => i = j

\* the index holds six files with one serving each and a peer that serves none of them
\* got exactly five tasks
C35_Witness ==
    /\ Len(file_index) = 6
    /\ \A i \in 1..6 : Len(file_index[i].peers) = 1
    /\ RegistryOk("w1")
    /\ response["w1"].peer_id \notin PeerIdsOf(file_index[1].peers)
    /\ Len(response["w1"].replication_tasks) = 5

\* the number of entries of a payload.files that the registration is to pass to add_file:
\* every key of a mapping, every item of a list that has a non-empty name or file_name
\* (an item that is not a dict has neither), nothing of any other value
ExpectedCount(files) ==
    IF files.kind = "mapping" THEN Len(files.items)
    ELSE IF files.kind = "list"
         THEN Cardinality({i \in 1..Len(files.items) :
                             /\ files.items[i].is_dict
                             /\ files.items[i].name # "" \/ files.items[i].file_name # ""})
         ELSE 0

\* C36: registered_files of a status=ok REGISTRY_RESPONSE is the number of entries of
\* payload.files passed to add_file, an entry counting also when its serving existed
\* already; a registration whose files value is neither a mapping nor a list changes no
\* serving list.
C36_RegisteredFilesCount ==
    [][\A w \in Workers :
          /\ (RegistryOk(w)' /\ message'[w].type = "REGISTRY_REQUEST") =>
                response'[w].registered_files = ExpectedCount(message'[w].payload)
          /\ (IsRegistryStep(w) /\ message'[w].payload.kind = "other") =>
                file_index' = file_index
      ]_vars

\* the list whose five items give three entries, two of them the same name, answered
\* for a peer that served a.txt before the request
C36_Witness ==
    /\ RegistryOk("w1")
    /\ message["w1"].payload = MixedList
    /\ response["w1"].registered_files = 3
    /\ Len(file_index) = 6
    /\ Len(Get(file_index, "a.txt")) = 1
    /\ message["w1"].peer_id \in PeerIdsOf(Get(file_index, "a.txt"))

\* ------------------------------------------------------------------------
\* Properties of register_with_server and of replication
\* ------------------------------------------------------------------------
\* the call of peer p has returned
Returned(p) == \E i \in 1..Len(ClientPeers) : ClientPeers[i] = p /\ i < k_next

\* the files of a task list, in order
TaskFiles(ts) == [i \in 1..Len(ts) |-> ts[i].file_name]

\* the files replicate_file was called for, in order
Attempted(p) == [i \in 1..Len(k_attempts[p]) |-> k_attempts[p][i].file_name]

\* peer p got tasks, replicated every one of them and re-registered
Replicated(p) ==
    /\ k_attempts[p] # <<>>
    /\ Attempted(p) = TaskFiles(k_first[p].replication_tasks)
    /\ \A i \in 1..Len(k_attempts[p]) : k_attempts[p][i].ok
    /\ k_rereg[p] = "ok"

\* peer1 shares one file, peer2 and peer3 share nothing
TwoPeersScenario ==
    shared_dir = [p \in ClientIds |-> IF p = "peer1" THEN {"a.txt"} ELSE {}]

\* C16: with R = 2 and an empty index, peer1 registers a.txt and gets no task; peer2
\* registers no files and gets exactly one task, for a.txt with source peer1; once peer2
\* has replicated it and re-registered, the index holds two servings of a.txt (peer1 and
\* peer2), and peer3, registering no files, gets no task for a.txt.
C16_TwoPeersConverge ==
    TwoPeersScenario =>
        /\ k_sent["peer1"] >= 1 => k_first["peer1"].replication_tasks = <<>>
        /\ k_sent["peer2"] >= 1 =>
              /\ TaskFiles(k_first["peer2"].replication_tasks) = <<"a.txt">>
              /\ k_first["peer2"].replication_tasks[1].source.peer_id = "peer1"
        /\ (Returned("peer2") /\ Replicated("peer2")) =>
              /\ PeerIdsOf(Get(file_index, "a.txt")) = {"peer1", "peer2"}
              /\ k_sent["peer3"] >= 1 => k_first["peer3"].replication_tasks = <<>>

\* C17: when every peer has arrived, each having replicated all its tasks and
\* re-registered before the next one registered, with no transfer failing, every file the
\* first peer shares has at least replication_factor servings.
C17_Convergence ==
    (/\ k_next > Len(ClientPeers)
     /\ \A p \in ClientIds : k_first[p].replication_tasks # <<>> => Replicated(p))
    => \A f \in shared_dir["peer1"] : Len(Get(file_index, f)) >= ReplicationFactor

\* C18: one call of register_with_server sends at most two REGISTRY_REQUESTs; the second
\* is sent only after every task of the first response was attempted; replicate_file is
\* never called for a task of the second response; and a call with perform_replication
\* that got tasks makes exactly one re-registration before it returns.
C18_SingleReRegistration ==
    \A p \in ClientIds :
        /\ k_sent[p] <= 2
        /\ Len(k_attempts[p]) <= Len(k_first[p].replication_tasks)
        /\ k_sent[p] = 2 => Attempted(p) = TaskFiles(k_first[p].replication_tasks)
        /\ k_rereg[p] # "none" => k_perform[p] /\ k_first[p].replication_tasks # <<>>
        /\ (Returned(p) /\ k_perform[p] /\ k_first[p].replication_tasks # <<>>) => k_rereg[p] # "none"
        /\ (Returned(p) /\ k_rereg[p] = "ok") => k_sent[p] = 2

\* a call has returned after its re-registration, whose response carried tasks again
C18_Witness ==
    \E p \in ClientIds :
        /\ Returned(p) /\ k_rereg[p] = "ok" /\ k_sent[p] = 2
        /\ k_ret[p].replication_tasks # <<>>
        /\ Len(k_attempts[p]) = Len(k_first[p].replication_tasks)

\* C19: a failing replication task does not stop register_with_server: every task of the
\* first response is attempted, in order, and the re-registration is made (its request is
\* sent unless its own connection fails), and the call returns a payload.
C19_TaskFailureSwallowed ==
    \A p \in ClientIds :
        (Returned(p) /\ k_perform[p] /\ k_first[p].replication_tasks # <<>>) =>
            /\ Attempted(p) = TaskFiles(k_first[p].replication_tasks)
            /\ k_rereg[p] # "none"
            /\ k_rereg[p] # "connect_error" => k_sent[p] = 2
            /\ k_ret[p].status = "ok"

\* the first of two tasks failed, the second was carried out, the re-registration was sent
C19_Witness ==
    \E p \in ClientIds :
        /\ Returned(p) /\ k_rereg[p] = "ok" /\ k_sent[p] = 2
        /\ Len(k_attempts[p]) = 2
        /\ ~k_attempts[p][1].ok /\ k_attempts[p][2].ok

\* ------------------------------------------------------------------------
\* Properties of the codec
\* ------------------------------------------------------------------------
\* C1: when the response was status=ok, the server streamed the whole file and closed,
\* and the client's obtain/replicate returned, the destination file equals the source.
C1_ByteExactCopy ==
    (x_cpc = "done" /\ x_spc = "closed" /\ x_off = Len(x_src) /\ x_meta.status = "ok")
        => x_dest = x_src

\* C20: after a status=ok header advertising file_size, the server has written exactly
\* file_size raw bytes when it closes the connection, whatever happens to the file on disk.
C20_ServerWritesFileSize ==
    (x_spc = "closed" /\ x_size # None) => x_off = x_size

\* ------------------------------------------------------------------------
\* Properties of a transfer
\* ------------------------------------------------------------------------
\* C21: once the metadata was accepted, the client's read loop is bounded by the
\* advertised file_size, for every file_size >= 0: the destination never holds more than
\* file_size bytes, and the loop is over as soon as it holds file_size bytes, whether
\* or not the server has closed.
C21_ReadBoundedBySize ==
    x_cpc \in {"body", "done"} =>
        /\ Len(x_dest) <= x_meta.file_size
        /\ (x_cpc = "body" => Len(x_dest) < x_meta.file_size)

\* C22: a truncated transfer is told apart from a complete one by its outcome: obtain /
\* replicate returns normally (which is what register counts as a completed replication)
\* only when the destination holds the file_size bytes the header advertised.
C22_TruncationDetected ==
    x_cpc = "done" => Len(x_dest) >= x_meta.file_size

\* a well-formed request for an empty file that the serving peer has
EmptyTransfer ==
    x_src = <<>> /\ x_present /\ x_named /\ x_kind \in {"OBTAIN", "REPLICATE"}

\* C23: a transfer of a file of size 0 completes cleanly: the server's one message is the
\* status=ok header with file_size = 0, no raw byte follows it, the client does not
\* raise, and when nothing is left to do the server has closed and the client has
\* returned with the destination file created and empty.
C23_EmptyTransferClean ==
    EmptyTransfer =>
        /\ \A i \in 1..Len(x_sent) : x_sent[i].status = "ok" /\ x_sent[i].file_size = 0
        /\ x_off = 0
        /\ x_cpc # "failed"
        /\ (x_spc = "closed" => Len(x_sent) = 1)
        /\ (x_cpc = "done" => x_exists /\ x_dest = <<>>)
        /\ (~ENABLED XferNext => x_spc = "closed" /\ x_cpc = "done")

C23_Witness ==
    EmptyTransfer /\ x_spc = "closed" /\ x_cpc = "done" /\ x_exists /\ x_dest = <<>>

\* a well-formed request for a file that the serving peer's shared directory lacks
NotFoundRequest ==
    ~x_present /\ x_named /\ x_kind \in {"OBTAIN", "REPLICATE"}

\* C24: a request for a file that is not in the shared directory is answered with one
\* framed response status=error, error=file_not_found and the requested file_name; the
\* server closes right after it and sends no raw byte; the client raises and does not
\* open the destination file.
C24_FileNotFound ==
    NotFoundRequest =>
        /\ Len(x_sent) <= 1
        /\ \A i \in 1..Len(x_sent) :
            /\ x_sent[i].status = "error"
            /\ x_sent[i].error = "file_not_found"
            /\ x_sent[i].file_name = WantedFile
        /\ (Len(x_sent) = 1 <=> x_spc = "closed")
        /\ (x_spc = "closed" => x_closed)
        /\ x_off = 0
        /\ Len(x_s2c) <= Len(Serialize(NullMsg))
        /\ x_cpc # "body" /\ x_cpc # "done"
        /\ ~x_exists /\ x_dest = <<>>
        /\ (~ENABLED XferNext => x_cpc = "failed")

C24_Witness ==
    NotFoundRequest /\ Len(x_sent) = 1 /\ x_spc = "closed" /\ x_cpc = "failed" /\ ~x_exists

\* the server's single response has the type that goes with the request it answers
Mirrored ==
    /\ Len(x_sent) <= 1
    /\ (x_spc = "closed" /\ x_req # ProtocolError => Len(x_sent) = 1)
    /\ \A i \in 1..Len(x_sent) :
        /\ RequestType(x_kind) = "REPLICATE_REQUEST" => x_sent[i].type = "REPLICATE_RESPONSE"
        /\ RequestType(x_kind) = "OBTAIN_REQUEST" => x_sent[i].type = "OBTAIN_RESPONSE"
        /\ RequestType(x_kind) \notin Served =>
            /\ x_sent[i].type = "OBTAIN_RESPONSE"
            /\ x_sent[i].status = "error"
            /\ x_spc = "closed" /\ x_closed

\* C25: the transfer server handles one request per connection (once it has a request it
\* never receives again, and it sends one response) and the type of the response mirrors
\* the request: REPLICATE_RESPONSE for every outcome of a REPLICATE_REQUEST,
\* OBTAIN_RESPONSE for every outcome of an OBTAIN_REQUEST, and an OBTAIN_RESPONSE with
\* status=error followed by close for any other request type.
C25_OneRequestMirrored ==
    [][/\ Mirrored'
       /\ (x_spc # "recv" => x_spc' # "recv" /\ x_req' = x_req /\ x_c2s' = x_c2s)]_vars

\* a REPLICATE_REQUEST that fails (no such file, or no file_name) answered
C25_Witness ==
    /\ Len(x_sent) = 1
    /\ x_spc = "closed"
    /\ \/ x_kind = "REPLICATE" /\ ~x_present /\ x_named /\ x_sent[1].error = "file_not_found"
       \/ x_kind = "REPLICATE" /\ ~x_named /\ x_sent[1].error = "missing file_name"

RECURSIVE UpTo(_)
UpTo(n) == IF n = 0 THEN <<>> ELSE Append(UpTo(n - 1), n)

\* C7: the responses written on a connection answer the requests in order, the server
\* does not drop the connection on well-formed requests, and once every byte of the k
\* requests was received there are k responses.
C7_ResponsePerRequest ==
    /\ c_pc # "closed"
    /\ c_resps = UpTo(Len(c_resps))
    /\ (c_sent = NumRequests /\ c_in = <<>>) => c_resps = UpTo(NumRequests)

\* peer p is listed as serving file f
Advertises(p, f) == p \in PeerIdsOf(Get(file_index, f))

\* C40: a file the directory lists peer p as serving after p's re-registration is one p's
\* transfer server can serve, a file whose replication failed is not listed for p because
\* of it, and every file p replicated successfully is served by p's transfer server.
C40_ReplicatedFilesServed ==
    \A p \in ClientIds :
        /\ k_rereg[p] = "ok" => \A f \in Range(AllFiles) : Advertises(p, f) => f \in shared_dir[p]
        /\ \A i \in 1..Len(k_attempts[p]) :
              k_attempts[p][i].ok => k_attempts[p][i].file_name \in shared_dir[p]

\* C34: when a client operation has ended, by success, error response, connect failure,
\* timeout or exception, the socket it acquired is closed, and when the server worker has
\* ended, its connection is closed.
C34_SocketsClosed ==
    /\ x_cpc \in {"done", "failed"} => x_csock # "open"
    /\ x_spc = "closed" => x_closed

\* C39: a peer the directory lists as serving a file, and so hands out in search results
\* and as a task source, has its transfer server listening.
C39_VisibleOnlyWhenListening ==
    \A p \in ClientIds :
        (\E f \in Range(AllFiles) : Advertises(p, f)) => p \in k_listening

\* C31: when receive_message has failed on a directory connection (a frame that does not
\* parse, a recv that fails, the connection closed by the client), the worker goes on to
\* close the connection and nothing else: no response is written, the registry and the
\* servings stay as they were, and the accept loop keeps running.
C31_ReadErrorClosesQuietly ==
    [][c_pc = "failed" =>
          /\ c_pc' \in {"failed", "closed"}
          /\ c_out' = c_out
          /\ file_index' = file_index
          /\ peer_registry' = peer_registry
          /\ c_running']_vars

\* a second connection has ended on a read error, before any message was read from it,
\* while the peer of the first one is still listed as serving its file
C31_Witness ==
    /\ c_accepted = 2
    /\ c_pc = "closed"
    /\ c_out = <<>>
    /\ c_msg = NullMsg
    /\ c_running
    /\ "peer1" \in DOMAIN peer_registry
    /\ "peer1" \in PeerIdsOf(Get(file_index, WantedFile))

\* C32: a JSON object without a type field is not handed to handle_client as a message:
\* no message the worker dispatches has an empty type.
C32_TypelessNotDispatched ==
    c_pc = "dispatch" => c_msg.type # ""

RECURSIVE Total(_, _, _)
\* the sum of one field over the first n records
Total(records, n, bytes) ==
    IF n = 0 THEN 0
    ELSE Total(records, n - 1, bytes)
         + (IF bytes THEN records[n].bytes ELSE records[n].duration)

\* C33: the totals get_statistics computes the throughput from are those of one snapshot
\* of the recorded downloads: there is a moment of the list (a prefix of it, records being
\* appended only) at which both sums were its sums.
C33_ConsistentSnapshot ==
    m_pc = "done" =>
        \E n \in 0..Len(m_downloads) :
            /\ m_bytes = Total(m_downloads, n, TRUE)
            /\ m_duration = Total(m_downloads, n, FALSE)

====
